---- MODULE Spec2Model ----
(***************************************************************************)
(* Tower firmware (EmSwLabs): byte-wide circular FIFO with its two         *)
(* counting semaphores (Lab5/Sources/FIFO.c, Lab1/Sources/FIFO.c) and the  *)
(* 5-byte packet decoder/encoder (Lab5/Sources/packet.c).                  *)
(***************************************************************************)
EXTENDS Integers, Sequences, FiniteSets, TLC

(***************************************************************************)
(* Bounds of the model.                                                    *)
(***************************************************************************)
\* Capacity of the FIFO (FIFO_SIZE of FIFO.h, scaled down).
FIFO_SIZE == 5
\* Bytes offered to the FIFO are 0..MaxData.
MaxData == 1
\* Number of bytes accepted by the FIFO before the producers stop.
MaxPuts == 6
\* Bytes of packets and of the serial stream are 0..MaxByte.
MaxByte == 2
\* Number of bytes the serial line delivers to the decoder.
MaxStream == 10
\* Packet_Put calls in one behaviour.
MaxCalls == 2
\* Flash write and erase calls in one behaviour.
MaxFlashOps == 1
\* Largest size argument of Flash_AllocateVar and Flash_WriteN.
MaxSize == 4
\* Packets handled by the protocol thread in one behaviour.
MaxPackets == 1
\* Largest half-word an analog input delivers
MaxSample == 2
\* Interrupts served in one behaviour
MaxInterrupts == 3
\* Calls of PITCallback between two toggles of the green LED (50 in main.c)
TOGGLE_COUNT == 2
\* Bytes the serial line delivers to the non-blocking decoder of Lab 4
MaxArrivals == 6
\* Flash commands launched one after the other
MaxLaunches == 3

\* The highest FTM channel the program sets up
MaxChannel == 2

\* Size of a packet on the wire (#define PACKET_SIZE 5).
PACKET_SIZE == 5

Data == 0..MaxData
Byte == 0..MaxByte

VARIABLES
  cfg,        \* which program / which use of the FIFO is running
  FIFO,       \* the TFIFO structure: Buffer, Start, End, NbBytes and the two semaphore counts
  pcPut,      \* position of the thread inside FIFO_BlockingPut: "idle", "wait", "put"
  putArg,     \* the data argument of the FIFO_BlockingPut in progress
  pcGet,      \* position of the thread inside FIFO_BlockingGet: "idle", "wait", "get"
  dataOut,    \* the caller's byte, *dataPtr
  lastOp,     \* the FIFO function that returned last
  result,     \* what the last FIFO_Put / FIFO_Get returned
  calls,      \* parity of the number of FIFO_Put / FIFO_Get calls that returned
  halted,     \* PE_DEBUGHALT was executed
  putLog,     \* bytes accepted by successful FIFO_Put calls, in order
  getLog,     \* bytes returned by successful FIFO_Get calls, in order
  PacketBuf,  \* the decoder's window, uint8_t PacketBuf[PACKET_SIZE]
  BufNbBytes, \* number of bytes in the window
  Packet,     \* the published packet: Command, Parameter1, Parameter2, Parameter3
  rxStream,   \* bytes received from the serial line and not yet read by the decoder
  consumed,   \* number of bytes read by ReadNextByte
  emitted,    \* number of packets Packet_Get returned
  discards,   \* number of ShiftBuffer calls
  reported,   \* the last iteration of Packet_Get returned a packet
  sent,       \* the frames handed to the serial line, in order
  recent,     \* the last bytes (at most PACKET_SIZE) read since the last reported packet
  PutMutex,   \* count of the semaphore PutMutex of packet.c
  putThread,  \* per thread: its position inside Packet_Put and the number of its call
  puts,       \* the Packet_Put calls so far: caller, arguments, frame, UART_OutChar calls made, wasSuccess, returned
  txOwner,    \* for each byte of putLog, the number of the Packet_Put call that wrote it
  availableBytes, \* the allocation bitmap of Flash_AllocateVar (static uint8_t)
  variable,   \* the caller's pointer, *variable of Flash_AllocateVar (0 is NULL)
  allocated,  \* the ranges <<offset, size>> handed out by successful Flash_AllocateVar calls
  flash,      \* the 8 bytes of the phrase at FLASH_DATA_START
  flashCall,  \* the last Flash call: function, arguments, commands launched, results
  flashOps,   \* number of Flash write and erase calls since the start-up
  flashFault, \* the processor took a fault inside Flash_WriteN
  TowerProtocolMode, \* static ProtocolMode TowerProtocolMode of main.c
  NvTowerNb,  \* the pointer NvTowerNb of main.c
  NvTowerMode, \* the pointer NvTowerMode of main.c
  RTC_TSR,    \* the time seconds register of the real time clock
  dispatch,   \* the last packet handled: what HandlePacket returned and the Packet_Put calls made
  startup,    \* the AllocateAndSet calls main made: whether each wrote and what Flash_WriteN returned
  flashAtReset, \* the 8 bytes the phrase held at reset
  sysPc,      \* per thread of Lab 5: the statement it executes next
  sem,        \* the counts of the semaphores the threads wait on
  pending,    \* per thread: the Flash call in progress (commands to launch, phrase to program, result)
  lowIsHigh,  \* the priority convention of the RTOS: a lower number is a higher priority
  toggleCallback, \* static uint8_t toggleCallback of PITCallback
  ftmArmed,   \* the output compare of the LED timer channel is running
  arrayForCloning, \* median.c: the channel whose window the scratch array holds
  analogValue, \* per channel: the channel whose window Analog_Input[ch].value was computed from
  isrOps,     \* the interrupt handler that ran last and what it did
  irqCount,   \* number of interrupts served
  medianArg,  \* the array passed to Median_Filter
  medianOut,  \* whether Median_Filter was called, and what it returned
  packets,    \* Lab 4: the packets Packet_Get reported, in order
  SR_lock,    \* nesting count of EnterCritical / ExitCritical
  FTFE_FSTAT, \* the flags of the flash status register that are set
  launched,   \* the last LaunchCommand: the flags at completion and what it returned
  timeSent,   \* the last Time packet SendTime handed to Packet_Put
  Analog_Input, \* per channel: value and oldValue of TAnalogInput
  analogSent, \* the last wake of an analog thread: channel, mode and whether a packet was sent
  UART,       \* Lab 2: TxFIFO, RxFIFO, the flags and the data register of UART2
  FTM0_CnSC,  \* per channel of FTM0: CHIE, CHF and the edge/level select bits
  userCallbacks, \* FTM.c: the semaphore registered for each channel (NULL if none)
  ftmIsr      \* the last FTM0_ISR: the semaphores it signalled and the flags it cleared

fifoVars == <<cfg, SR_lock, FIFO, pcPut, putArg, pcGet, dataOut, lastOp, result, calls, halted, putLog, getLog>>
packetVars == <<PacketBuf, BufNbBytes, Packet, rxStream, consumed, emitted, discards, reported, sent, recent>>
putVars == <<PutMutex, putThread, puts, txOwner>>
flashVars == <<availableBytes, variable, allocated, flash, flashCall, flashOps, flashFault>>
mainVars == <<TowerProtocolMode, NvTowerNb, NvTowerMode, RTC_TSR, dispatch, startup, flashAtReset>>
sysVars == <<sysPc, sem, pending, lowIsHigh, toggleCallback, ftmArmed, arrayForCloning,
             analogValue, isrOps, irqCount, medianArg, medianOut>>
periphVars == <<packets, FTFE_FSTAT, launched, timeSent, Analog_Input, analogSent,
                UART, FTM0_CnSC, userCallbacks, ftmIsr>>
vars == <<cfg, FIFO, pcPut, putArg, pcGet, dataOut, lastOp, result, calls, halted, putLog, getLog,
          PacketBuf, BufNbBytes, Packet, rxStream, consumed, emitted, discards, reported, sent, recent,
          PutMutex, putThread, puts, txOwner,
          availableBytes, variable, allocated, flash, flashCall, flashOps, flashFault,
          TowerProtocolMode, NvTowerNb, NvTowerMode, RTC_TSR, dispatch, startup, flashAtReset,
          sysPc, sem, pending, lowIsHigh, toggleCallback, ftmArmed, arrayForCloning,
          analogValue, isrOps, irqCount, medianArg, medianOut,
          packets, SR_lock, FTFE_FSTAT, launched, timeSent, Analog_Input, analogSent,
          UART, FTM0_CnSC, userCallbacks, ftmIsr>>

\* What the FIFO calls, the decoder and the Flash calls leave alone.
nonFifoVars == <<packetVars, putVars, flashVars, mainVars, sysVars, periphVars>>
nonPacketVars == <<fifoVars, putVars, flashVars, mainVars, sysVars, periphVars>>
nonFlashVars == <<fifoVars, packetVars, putVars, mainVars, sysVars, periphVars>>

(***************************************************************************)
(* FIFO.c                                                                  *)
(***************************************************************************)

\* FIFO_Init: empty buffer, GetSemaphore created with 0 and PutSemaphore with
\* FIFO_SIZE.  The FIFOs are static objects, so Buffer starts zeroed.  (Lab 1
\* has no semaphores; the two counts then never change.)
FIFO_Init ==
  [Buffer |-> [i \in 0..(FIFO_SIZE - 1) |-> 0],
   NbBytes |-> 0, Start |-> 0, End |-> 0,
   GetSemaphore |-> 0, PutSemaphore |-> FIFO_SIZE]

\* FIFO_Put with the full test off by one (<= for <).
FIFO_Put_FullOffByOne(F, data) ==
  IF F.NbBytes <= FIFO_SIZE
  THEN [fifo |-> [F EXCEPT !.Buffer[F.End] = data,
                           !.NbBytes = @ + 1,
                           !.End = (@ + 1) % FIFO_SIZE,
                           !.GetSemaphore = @ + 1],
        result |-> TRUE]
  ELSE [fifo |-> F, result |-> FALSE]

\* FIFO_Put that advances End before it stores the byte.
FIFO_Put_StoreAfterAdvance(F, data) ==
  IF F.NbBytes < FIFO_SIZE
  THEN [fifo |-> [F EXCEPT !.Buffer[(F.End + 1) % FIFO_SIZE] = data,
                           !.NbBytes = @ + 1,
                           !.End = (@ + 1) % FIFO_SIZE,
                           !.GetSemaphore = @ + 1],
        result |-> TRUE]
  ELSE [fifo |-> F, result |-> FALSE]

\* FIFO_Put that does not wrap End to the front of the buffer.
FIFO_Put_NoWrap(F, data) ==
  IF F.NbBytes < FIFO_SIZE
  THEN [fifo |-> [F EXCEPT !.Buffer[F.End % FIFO_SIZE] = data,
                           !.NbBytes = @ + 1,
                           !.End = @ + 1,
                           !.GetSemaphore = @ + 1],
        result |-> TRUE]
  ELSE [fifo |-> F, result |-> FALSE]

\* FIFO_Put of Lab 5, the whole critical region.
FIFO_Put(F, data) ==
  IF F.NbBytes < FIFO_SIZE
  THEN [fifo |-> [F EXCEPT !.Buffer[F.End] = data,
                           !.NbBytes = @ + 1,
                           !.End = (@ + 1) % FIFO_SIZE,
                           !.GetSemaphore = @ + 1],
        result |-> TRUE]
  ELSE [fifo |-> F, result |-> FALSE]

\* FIFO_Get that forgets NbBytes--.
FIFO_Get_NoDecrement(F, out) ==
  IF F.NbBytes > 0
  THEN [fifo |-> [F EXCEPT !.Start = (@ + 1) % FIFO_SIZE,
                           !.PutSemaphore = @ + 1],
        out |-> F.Buffer[F.Start],
        result |-> TRUE]
  ELSE [fifo |-> F, out |-> out, result |-> FALSE]

\* FIFO_Get that forgets OS_SemaphoreSignal(FIFO->PutSemaphore).
FIFO_Get_NoSignal(F, out) ==
  IF F.NbBytes > 0
  THEN [fifo |-> [F EXCEPT !.NbBytes = @ - 1,
                           !.Start = (@ + 1) % FIFO_SIZE],
        out |-> F.Buffer[F.Start],
        result |-> TRUE]
  ELSE [fifo |-> F, out |-> out, result |-> FALSE]

\* FIFO_Get that copies Buffer[Start] to *dataPtr before the empty test.
FIFO_Get_CopyBeforeTest(F, out) ==
  IF F.NbBytes > 0
  THEN [fifo |-> [F EXCEPT !.NbBytes = @ - 1,
                           !.Start = (@ + 1) % FIFO_SIZE,
                           !.PutSemaphore = @ + 1],
        out |-> F.Buffer[F.Start],
        result |-> TRUE]
  ELSE [fifo |-> F, out |-> F.Buffer[F.Start], result |-> FALSE]

\* FIFO_Get of Lab 5, the whole critical region; out is *dataPtr afterwards.
FIFO_Get(F, out) ==
  IF F.NbBytes > 0
  THEN [fifo |-> [F EXCEPT !.NbBytes = @ - 1,
                           !.Start = (@ + 1) % FIFO_SIZE,
                           !.PutSemaphore = @ + 1],
        out |-> F.Buffer[F.Start],
        result |-> TRUE]
  ELSE [fifo |-> F, out |-> out, result |-> FALSE]

\* EnterCritical and ExitCritical of Processor Expert count the nesting of
\* critical regions in SR_lock; interrupts are disabled while it is not 0.
EnterCritical(lock) == lock + 1

ExitCritical(lock) == lock - 1

\* FIFO_Put that returns false from inside the if, before ExitCritical.
FIFO_Put_Critical_EarlyReturn(F, lock) ==
  LET entered == EnterCritical(lock) IN
    IF F.NbBytes < FIFO_SIZE THEN ExitCritical(entered) ELSE entered

\* SR_lock when FIFO_Put of Lab 5 returns: EnterCritical comes before the
\* if and ExitCritical after it, on the path of a full FIFO as well.
FIFO_Put_Critical(F, lock) ==
  LET entered == EnterCritical(lock) IN
    IF F.NbBytes < FIFO_SIZE THEN ExitCritical(entered) ELSE ExitCritical(entered)

\* SR_lock when FIFO_Get of Lab 5 returns, on the path of an empty FIFO as
\* well.
FIFO_Get_Critical(F, lock) ==
  LET entered == EnterCritical(lock) IN
    IF F.NbBytes > 0 THEN ExitCritical(entered) ELSE ExitCritical(entered)

\* FIFO_Put of Lab 1: no semaphores, early return when full.
Lab1_FIFO_Put(F, data) ==
  IF F.NbBytes = FIFO_SIZE
  THEN [fifo |-> F, result |-> FALSE]
  ELSE [fifo |-> [F EXCEPT !.Buffer[F.End] = data,
                           !.NbBytes = @ + 1,
                           !.End = (@ + 1) % FIFO_SIZE],
        result |-> TRUE]

\* FIFO_Get of Lab 1: no semaphores, early return when empty.
Lab1_FIFO_Get(F, out) ==
  IF F.NbBytes = 0
  THEN [fifo |-> F, out |-> out, result |-> FALSE]
  ELSE [fifo |-> [F EXCEPT !.NbBytes = @ - 1,
                           !.Start = (@ + 1) % FIFO_SIZE],
        out |-> F.Buffer[F.Start],
        result |-> TRUE]

\* Who calls what in each configuration.
\*   Lab1, Lab5: any sequence of calls on one FIFO
\*   Rx: receive FIFO, the ISR calls FIFO_Put and a thread FIFO_BlockingGet
\*   Tx: transmit FIFO, a thread calls FIFO_BlockingPut and the ISR FIFO_Get
\*   Threads: one thread calls FIFO_BlockingPut, another FIFO_BlockingGet
PutCallers == {"Lab5", "Rx"}
GetCallers == {"Lab5", "Tx"}
BlockingPutCallers == {"Lab5", "Tx", "Threads"}
BlockingGetCallers == {"Lab5", "Rx", "Threads"}

\* A call of the non-blocking FIFO_Put (from a thread or an ISR).
Put(d) ==
  /\ cfg \in PutCallers
  /\ ~halted
  /\ Len(putLog) < MaxPuts
  /\ LET r == FIFO_Put(FIFO, d) IN
       /\ FIFO' = r.fifo
       /\ result' = r.result
       /\ putLog' = IF r.result THEN Append(putLog, d) ELSE putLog
  /\ calls' = 1 - calls
  /\ lastOp' = "FIFO_Put"
  /\ SR_lock' = FIFO_Put_Critical(FIFO, SR_lock)
  /\ UNCHANGED <<cfg, pcPut, putArg, pcGet, dataOut, halted, getLog>>
  /\ UNCHANGED nonFifoVars

\* A call of the non-blocking FIFO_Get (from a thread or an ISR).
Get ==
  /\ cfg \in GetCallers
  /\ ~halted
  /\ LET r == FIFO_Get(FIFO, dataOut) IN
       /\ FIFO' = r.fifo
       /\ result' = r.result
       /\ dataOut' = r.out
       /\ getLog' = IF r.result THEN Append(getLog, r.out) ELSE getLog
  /\ calls' = 1 - calls
  /\ lastOp' = "FIFO_Get"
  /\ SR_lock' = FIFO_Get_Critical(FIFO, SR_lock)
  /\ UNCHANGED <<cfg, pcPut, putArg, pcGet, halted, putLog>>
  /\ UNCHANGED nonFifoVars

\* Lab 1: a call of FIFO_Put from the main loop.
Lab1_Put(d) ==
  /\ cfg = "Lab1"
  /\ Len(putLog) < MaxPuts
  /\ LET r == Lab1_FIFO_Put(FIFO, d) IN
       /\ FIFO' = r.fifo
       /\ result' = r.result
       /\ putLog' = IF r.result THEN Append(putLog, d) ELSE putLog
  /\ calls' = 1 - calls
  /\ lastOp' = "FIFO_Put"
  /\ UNCHANGED <<cfg, SR_lock, pcPut, putArg, pcGet, dataOut, halted, getLog>>
  /\ UNCHANGED nonFifoVars

\* Lab 1: a call of FIFO_Get from the main loop.
Lab1_Get ==
  /\ cfg = "Lab1"
  /\ LET r == Lab1_FIFO_Get(FIFO, dataOut) IN
       /\ FIFO' = r.fifo
       /\ result' = r.result
       /\ dataOut' = r.out
       /\ getLog' = IF r.result THEN Append(getLog, r.out) ELSE getLog
  /\ calls' = 1 - calls
  /\ lastOp' = "FIFO_Get"
  /\ UNCHANGED <<cfg, SR_lock, pcPut, putArg, pcGet, halted, putLog>>
  /\ UNCHANGED nonFifoVars

\* A thread enters FIFO_BlockingPut(data).
BlockingPut_Call(d) ==
  /\ cfg \in BlockingPutCallers
  /\ ~halted
  /\ pcPut = "idle"
  /\ Len(putLog) < MaxPuts
  /\ pcPut' = "wait"
  /\ putArg' = d
  /\ UNCHANGED <<cfg, SR_lock, FIFO, pcGet, dataOut, lastOp, result, calls, halted, putLog, getLog>>
  /\ UNCHANGED nonFifoVars

\* OS_SemaphoreWait(FIFO->PutSemaphore, 0) returns: the count was positive
\* and is decremented (the thread stays suspended while the count is 0).
BlockingPut_Wait ==
  /\ ~halted
  /\ pcPut = "wait"
  /\ FIFO.PutSemaphore > 0
  /\ FIFO' = [FIFO EXCEPT !.PutSemaphore = @ - 1]
  /\ pcPut' = "put"
  /\ UNCHANGED <<cfg, SR_lock, putArg, pcGet, dataOut, lastOp, result, calls, halted, putLog, getLog>>
  /\ UNCHANGED nonFifoVars

\* if (!FIFO_Put(FIFO, data)) PE_DEBUGHALT();
BlockingPut_Put ==
  /\ ~halted
  /\ pcPut = "put"
  /\ LET r == FIFO_Put(FIFO, putArg) IN
       /\ FIFO' = r.fifo
       /\ result' = r.result
       /\ halted' = ~r.result
       /\ putLog' = IF r.result THEN Append(putLog, putArg) ELSE putLog
  /\ pcPut' = "idle"
  /\ calls' = 1 - calls
  /\ lastOp' = "FIFO_BlockingPut"
  /\ SR_lock' = FIFO_Put_Critical(FIFO, SR_lock)
  /\ UNCHANGED <<cfg, putArg, pcGet, dataOut, getLog>>
  /\ UNCHANGED nonFifoVars

\* A thread enters FIFO_BlockingGet(dataPtr).
BlockingGet_Call ==
  /\ cfg \in BlockingGetCallers
  /\ ~halted
  /\ pcGet = "idle"
  /\ Len(getLog) < MaxPuts
  /\ pcGet' = "wait"
  /\ UNCHANGED <<cfg, SR_lock, FIFO, pcPut, putArg, dataOut, lastOp, result, calls, halted, putLog, getLog>>
  /\ UNCHANGED nonFifoVars

\* OS_SemaphoreWait(FIFO->GetSemaphore, 0) returns.
BlockingGet_Wait ==
  /\ ~halted
  /\ pcGet = "wait"
  /\ FIFO.GetSemaphore > 0
  /\ FIFO' = [FIFO EXCEPT !.GetSemaphore = @ - 1]
  /\ pcGet' = "get"
  /\ UNCHANGED <<cfg, SR_lock, pcPut, putArg, dataOut, lastOp, result, calls, halted, putLog, getLog>>
  /\ UNCHANGED nonFifoVars

\* if (!FIFO_Get(FIFO, dataPtr)) PE_DEBUGHALT();
BlockingGet_Get ==
  /\ ~halted
  /\ pcGet = "get"
  /\ LET r == FIFO_Get(FIFO, dataOut) IN
       /\ FIFO' = r.fifo
       /\ result' = r.result
       /\ dataOut' = r.out
       /\ halted' = ~r.result
       /\ getLog' = IF r.result THEN Append(getLog, r.out) ELSE getLog
  /\ pcGet' = "idle"
  /\ calls' = 1 - calls
  /\ lastOp' = "FIFO_BlockingGet"
  /\ SR_lock' = FIFO_Get_Critical(FIFO, SR_lock)
  /\ UNCHANGED <<cfg, pcPut, putArg, putLog>>
  /\ UNCHANGED nonFifoVars

(***************************************************************************)
(* packet.c                                                                *)
(***************************************************************************)

\* The ^ of two uint8_t values, bit by bit.
RECURSIVE Xor(_, _)
Xor(a, b) ==
  IF a = 0 THEN b
  ELSE IF b = 0 THEN a
  ELSE (((a % 2) + (b % 2)) % 2) + 2 * Xor(a \div 2, b \div 2)

\* Packet_Init: BufNbBytes = 0; PacketBuf and Packet are zeroed statics.
\* Nothing was received, read or reported yet.
PacketInit ==
  /\ PacketBuf = [i \in 0..(PACKET_SIZE - 1) |-> 0]
  /\ BufNbBytes = 0
  /\ Packet = [Command |-> 0, Parameter1 |-> 0, Parameter2 |-> 0, Parameter3 |-> 0]
  /\ rxStream = <<>>
  /\ consumed = 0
  /\ emitted = 0
  /\ discards = 0
  /\ reported = FALSE
  /\ sent = <<>>
  /\ recent = <<>>

\* ReadNextByte that forgets BufNbBytes++.
ReadNextByte_NoIncrement(buf, n, data) ==
  [buf |-> [buf EXCEPT ![n] = data], n |-> n]

\* ReadNextByte: PacketBuf[BufNbBytes] = data; BufNbBytes++.
ReadNextByte(buf, n, data) ==
  [buf |-> [buf EXCEPT ![n] = data], n |-> (n + 1) % 256]

\* IsChecksumValid whose loop stops one byte early (i < PACKET_SIZE - 2).
IsChecksumValid_LoopShort(buf) ==
  Xor(Xor(buf[0], buf[1]), buf[2]) = buf[PACKET_SIZE - 1]

\* IsChecksumValid: the XOR of PacketBuf[0..3] equals PacketBuf[4].
IsChecksumValid(buf) ==
  Xor(Xor(Xor(buf[0], buf[1]), buf[2]), buf[3]) = buf[PACKET_SIZE - 1]

\* The loop of ShiftBuffer after its iterations 1..i.
RECURSIVE ShiftLoop(_, _)
ShiftLoop(buf, i) ==
  IF i = 0 THEN buf
  ELSE LET b == ShiftLoop(buf, i - 1) IN [b EXCEPT ![i - 1] = b[i]]

\* ShiftBuffer that copies the wrong way (PacketBuf[i] = PacketBuf[i - 1]).
ShiftBuffer_WrongDirection(buf, n) ==
  [buf |-> [i \in 0..(PACKET_SIZE - 1) |-> buf[0]], n |-> (n + 255) % 256]

\* ShiftBuffer whose loop stops one byte early (i < PACKET_SIZE - 1).
ShiftBuffer_LoopShort(buf, n) ==
  [buf |-> ShiftLoop(buf, PACKET_SIZE - 2), n |-> (n + 255) % 256]

\* ShiftBuffer that discards two bytes of the window at once.
ShiftBuffer_DropsTwo(buf, n) ==
  [buf |-> ShiftLoop(ShiftLoop(buf, PACKET_SIZE - 1), PACKET_SIZE - 1), n |-> (n + 254) % 256]

\* ShiftBuffer: PacketBuf[i - 1] = PacketBuf[i] for i = 1..4; BufNbBytes--.
ShiftBuffer(buf, n) ==
  [buf |-> ShiftLoop(buf, PACKET_SIZE - 1), n |-> (n + 255) % 256]

\* SetValuesAndResetBuffer: publish PacketBuf[0..3]; BufNbBytes = 0.
SetValuesAndResetBuffer_NoReset(buf) ==
  [packet |-> [Command |-> buf[0], Parameter1 |-> buf[1],
               Parameter2 |-> buf[2], Parameter3 |-> buf[3]],
   n |-> PACKET_SIZE]

SetValuesAndResetBuffer(buf) ==
  [packet |-> [Command |-> buf[0], Parameter1 |-> buf[1],
               Parameter2 |-> buf[2], Parameter3 |-> buf[3]],
   n |-> 0]

\* Packet_Put whose checksum leaves out parameter3.
PacketFrame_ChecksumShort(command, parameter1, parameter2, parameter3) ==
  LET checkSum == Xor(Xor(command, parameter1), parameter2) IN
    <<command, parameter1, parameter2, parameter3, checkSum>>

\* Packet_Put: the bytes handed to UART_OutChar, in order.
PacketFrame_ParamsSwapped(command, parameter1, parameter2, parameter3) ==
  LET checkSum == Xor(Xor(Xor(command, parameter1), parameter2), parameter3) IN
    <<command, parameter2, parameter1, parameter3, checkSum>>

PacketFrame(command, parameter1, parameter2, parameter3) ==
  LET checkSum == Xor(Xor(Xor(command, parameter1), parameter2), parameter3) IN
    <<command, parameter1, parameter2, parameter3, checkSum>>

\* The last (at most PACKET_SIZE) elements of a sequence.
LastBytes(s) ==
  IF Len(s) <= PACKET_SIZE THEN s ELSE SubSeq(s, Len(s) - PACKET_SIZE + 1, Len(s))

\* One iteration of the loop of Packet_Get (Lab 5): ReadNextByte blocks in
\* UART_InChar until a byte is there; with 5 bytes in the window the packet
\* is either published (Packet_Get returns) or the first byte is discarded.
Packet_Get_Step ==
  /\ rxStream # <<>>
  /\ LET r == ReadNextByte(PacketBuf, BufNbBytes, Head(rxStream)) IN
       IF r.n >= PACKET_SIZE
       THEN IF IsChecksumValid(r.buf)
            THEN LET v == SetValuesAndResetBuffer(r.buf) IN
                   /\ PacketBuf' = r.buf
                   /\ BufNbBytes' = v.n
                   /\ Packet' = v.packet
                   /\ reported' = TRUE
                   /\ emitted' = emitted + 1
                   /\ discards' = discards
                   /\ recent' = <<>>
            ELSE LET t == ShiftBuffer(r.buf, r.n) IN
                   /\ PacketBuf' = t.buf
                   /\ BufNbBytes' = t.n
                   /\ Packet' = Packet
                   /\ reported' = FALSE
                   /\ emitted' = emitted
                   /\ discards' = discards + 1
                   /\ recent' = LastBytes(Append(recent, Head(rxStream)))
       ELSE /\ PacketBuf' = r.buf
            /\ BufNbBytes' = r.n
            /\ Packet' = Packet
            /\ reported' = FALSE
            /\ emitted' = emitted
            /\ discards' = discards
            /\ recent' = LastBytes(Append(recent, Head(rxStream)))
  /\ rxStream' = Tail(rxStream)
  /\ consumed' = consumed + 1
  /\ UNCHANGED sent
  /\ UNCHANGED nonPacketVars

\* The serial line delivers one byte (any value) to the receiver.
UART_Receive(b) ==
  /\ rxStream = <<>>
  /\ consumed < MaxStream
  /\ rxStream' = <<b>>
  /\ UNCHANGED <<PacketBuf, BufNbBytes, Packet, consumed, emitted, discards, reported, sent, recent>>
  /\ UNCHANGED nonPacketVars

\* The peer runs Packet_Put(command, parameter1, parameter2, parameter3) and
\* its 5 bytes arrive, while the decoder's window is empty.
SendPacket(command, parameter1, parameter2, parameter3) ==
  /\ rxStream = <<>>
  /\ BufNbBytes = 0
  /\ consumed + PACKET_SIZE <= MaxStream
  /\ rxStream' = PacketFrame(command, parameter1, parameter2, parameter3)
  /\ sent' = sent \o PacketFrame(command, parameter1, parameter2, parameter3)
  /\ UNCHANGED <<PacketBuf, BufNbBytes, Packet, consumed, emitted, discards, reported, recent>>
  /\ UNCHANGED nonPacketVars

\* The frames of all packets with bytes in Byte.
Frames ==
  {PacketFrame(c, p1, p2, p3) : c \in Byte, p1 \in Byte, p2 \in Byte, p3 \in Byte}

\* s is a valid frame with one of its four payload bytes replaced by another
\* value, followed by a valid frame.
CorruptedThenValid(s) ==
  \E f \in Frames, g \in Frames, k \in 1..(PACKET_SIZE - 1), v \in Byte :
    /\ v # f[k]
    /\ s = [f EXCEPT ![k] = v] \o g

(***************************************************************************)
(* Packet_Put and the transmit side of the UART                            *)
(***************************************************************************)

\* The threads of main.c that send packets.
Threads == {"Protocol", "RTC", "Analog"}

\* Command bytes of main.c.
STARTUP == 4
SPECIAL == 9
PROTOCOL_MODE == 10
TIME == 12
ANALOG_INPUT == 80

\* Arguments of the Packet_Put calls of SendStartup, SendVersion and
\* SendProtocolMode (any mode).
PutArgs ==
  {<<STARTUP, 0, 0, 0>>, <<SPECIAL, 118, 5, 0>>}
    \cup {<<PROTOCOL_MODE, 1, mode, 0>> : mode \in Data}

\* Arguments of the Packet_Put calls of each thread: the protocol thread
\* answers with SendStartup, the RTC thread calls SendTime (any hour) and
\* the analog thread SendAnalogValue for channel 0.
ThreadArgs(t) ==
  IF t = "Protocol" THEN {<<STARTUP, 0, 0, 0>>}
  ELSE IF t = "RTC" THEN {<<TIME, hours, 0, 0>> : hours \in Data}
  ELSE {<<ANALOG_INPUT, 0, 0, 0>>}

\* Packet_Init: PutMutex = OS_SemaphoreCreate(1).
PutMutexInit == 1

\* No Packet_Put was called yet.
PacketPutInit ==
  /\ PutMutex = PutMutexInit
  /\ putThread = [t \in Threads |-> [pc |-> "idle", call |-> 0]]
  /\ puts = <<>>
  /\ txOwner = <<>>

\* UART_OutChar: FIFO_Put(&TxFIFO, data), with the FIFO of the lab at hand.
UART_OutChar(F, data) ==
  IF cfg = "PutLab4" THEN Lab1_FIFO_Put(F, data) ELSE FIFO_Put(F, data)

\* UART_OutChar(b1) && ... && UART_OutChar(b5) from byte i on, stopping at
\* the first call that returns false: the FIFO afterwards, the number of
\* UART_OutChar calls made and the value of the conjunction.
RECURSIVE OutChars(_, _, _)
OutChars(F, frame, i) ==
  IF i > Len(frame)
  THEN [fifo |-> F, attempts |-> i - 1, wasSuccess |-> TRUE]
  ELSE LET r == UART_OutChar(F, frame[i]) IN
         IF r.result
         THEN OutChars(r.fifo, frame, i + 1)
         ELSE [fifo |-> r.fifo, attempts |-> i, wasSuccess |-> FALSE]

\* The && chain with & for &&: the next UART_OutChar is called whatever
\* the last one returned.
ChainNext_NoShortCircuit(ok, i) ==
  IF i < PACKET_SIZE THEN "out" ELSE "signal"

\* Packet_Put that returns false as soon as a byte is rejected, without
\* OS_SemaphoreSignal(PutMutex).
ChainNext_ReturnsOnFailure(ok, i) ==
  IF ~ok THEN "idle" ELSE IF i < PACKET_SIZE THEN "out" ELSE "signal"

\* Where the && chain goes after its i-th UART_OutChar returned ok: to the
\* next UART_OutChar, or out of the chain after the fifth byte or a false.
ChainNext(ok, i) ==
  IF ok /\ i < PACKET_SIZE THEN "out" ELSE "signal"

\* A thread of Lab 5 enters Packet_Put and computes checkSum.
PacketPut_Call(t, command, parameter1, parameter2, parameter3) ==
  /\ cfg = "PutLab5"
  /\ putThread[t].pc = "idle"
  /\ Len(puts) < MaxCalls
  /\ puts' = Append(puts, [thread |-> t,
                           args |-> <<command, parameter1, parameter2, parameter3>>,
                           frame |-> PacketFrame(command, parameter1, parameter2, parameter3),
                           attempts |-> 0, wasSuccess |-> TRUE, returned |-> FALSE])
  /\ putThread' = [putThread EXCEPT ![t] = [pc |-> "wait", call |-> Len(puts) + 1]]
  /\ UNCHANGED <<PutMutex, txOwner>>
  /\ UNCHANGED <<fifoVars, packetVars, flashVars, mainVars, sysVars, periphVars>>

\* A wait on PutMutex that never suspends the caller.
MutexFree_Always(count) == TRUE

\* OS_SemaphoreWait(PutMutex, 0) lets the caller through when the count is
\* positive; the caller stays suspended while it is 0.
MutexFree(count) == count > 0

\* OS_SemaphoreWait(PutMutex, 0) returns and the count is decremented.
PacketPut_Wait(t) ==
  /\ putThread[t].pc = "wait"
  /\ MutexFree(PutMutex)
  /\ PutMutex' = PutMutex - 1
  /\ putThread' = [putThread EXCEPT ![t].pc = "out"]
  /\ UNCHANGED <<puts, txOwner>>
  /\ UNCHANGED <<fifoVars, packetVars, flashVars, mainVars, sysVars, periphVars>>

\* The next UART_OutChar of the && chain; the chain ends after the fifth
\* byte or at the first rejected one.
PacketPut_OutChar(t) ==
  /\ putThread[t].pc = "out"
  /\ LET k == putThread[t].call
         i == puts[k].attempts + 1
         r == UART_OutChar(FIFO, puts[k].frame[i])
     IN /\ FIFO' = r.fifo
        /\ result' = r.result
        /\ putLog' = IF r.result THEN Append(putLog, puts[k].frame[i]) ELSE putLog
        /\ txOwner' = IF r.result THEN Append(txOwner, k) ELSE txOwner
        /\ puts' = [puts EXCEPT ![k].attempts = i, ![k].wasSuccess = r.result]
        /\ putThread' = [putThread EXCEPT ![t].pc = ChainNext(r.result, i)]
  /\ calls' = 1 - calls
  /\ lastOp' = "FIFO_Put"
  /\ SR_lock' = FIFO_Put_Critical(FIFO, SR_lock)
  /\ UNCHANGED <<cfg, pcPut, putArg, pcGet, dataOut, halted, getLog>>
  /\ UNCHANGED PutMutex
  /\ UNCHANGED <<packetVars, flashVars, mainVars, sysVars, periphVars>>

\* OS_SemaphoreSignal(PutMutex); return wasSuccess.
PacketPut_Signal(t) ==
  /\ putThread[t].pc = "signal"
  /\ PutMutex' = PutMutex + 1
  /\ puts' = [puts EXCEPT ![putThread[t].call].returned = TRUE]
  /\ putThread' = [putThread EXCEPT ![t].pc = "idle"]
  /\ UNCHANGED txOwner
  /\ UNCHANGED <<fifoVars, packetVars, flashVars, mainVars, sysVars, periphVars>>

\* Packet_Put of Lab 4, called from the main loop: the five UART_OutChar
\* calls run between EnterCritical and ExitCritical.
Lab4_Packet_Put(command, parameter1, parameter2, parameter3) ==
  /\ cfg = "PutLab4"
  /\ Len(puts) < MaxCalls
  /\ LET frame == PacketFrame(command, parameter1, parameter2, parameter3)
         r == OutChars(FIFO, frame, 1)
         accepted == IF r.wasSuccess THEN r.attempts ELSE r.attempts - 1
     IN /\ FIFO' = r.fifo
        /\ result' = r.wasSuccess
        /\ putLog' = putLog \o SubSeq(frame, 1, accepted)
        /\ txOwner' = txOwner \o [j \in 1..accepted |-> Len(puts) + 1]
        /\ puts' = Append(puts, [thread |-> "Main",
                                 args |-> <<command, parameter1, parameter2, parameter3>>,
                                 frame |-> frame,
                                 attempts |-> r.attempts, wasSuccess |-> r.wasSuccess,
                                 returned |-> TRUE])
        /\ calls' = (calls + r.attempts) % 2
  /\ lastOp' = "FIFO_Put"
  /\ UNCHANGED <<cfg, SR_lock, pcPut, putArg, pcGet, dataOut, halted, getLog>>
  /\ UNCHANGED <<PutMutex, putThread>>
  /\ UNCHANGED <<packetVars, flashVars, mainVars, sysVars, periphVars>>

\* The transmit half of the UART service routine: when the transmitter is
\* ready (TDRE) and FIFO_Get(&TxFIFO, &txData) returns a byte, it is sent.
UART_Transmit ==
  /\ cfg \in {"PutLab5", "PutLab4"}
  /\ LET r == IF cfg = "PutLab4" THEN Lab1_FIFO_Get(FIFO, dataOut)
                                 ELSE FIFO_Get(FIFO, dataOut) IN
       /\ FIFO' = r.fifo
       /\ result' = r.result
       /\ dataOut' = r.out
       /\ getLog' = IF r.result THEN Append(getLog, r.out) ELSE getLog
  /\ calls' = 1 - calls
  /\ lastOp' = "FIFO_Get"
  /\ SR_lock' = (IF cfg = "PutLab4" THEN SR_lock ELSE FIFO_Get_Critical(FIFO, SR_lock))
  /\ UNCHANGED <<cfg, pcPut, putArg, pcGet, halted, putLog>>
  /\ UNCHANGED nonFifoVars

(***************************************************************************)
(* Flash.c                                                                 *)
(***************************************************************************)

\* A uint32_t is a pair <<high half-word, low half-word>>.
Half == 65536

\* a + n on 32 bits, for a small n.
Add32(a, n) ==
  LET lo == a[2] + n IN <<(a[1] + (lo \div Half)) % Half, lo % Half>>

\* a - b on 32 bits.
Sub32(a, b) ==
  LET lo == a[2] - b[2]
      borrow == IF lo < 0 THEN 1 ELSE 0
  IN <<(a[1] - b[1] - borrow + Half) % Half, (lo + Half) % Half>>

\* a < b on 32 bits.
Less32(a, b) == a[1] < b[1] \/ (a[1] = b[1] /\ a[2] < b[2])

\* a % m on 32 bits, for m > 0.
Mod32(a, m) == (((a[1] % m) * (Half % m)) + (a[2] % m)) % m

\* The & and | of two unsigned values, bit by bit.
RECURSIVE BitAnd(_, _)
BitAnd(a, b) ==
  IF a = 0 \/ b = 0 THEN 0
  ELSE ((a % 2) * (b % 2)) + 2 * BitAnd(a \div 2, b \div 2)

RECURSIVE BitOr(_, _)
BitOr(a, b) ==
  IF a = 0 THEN b
  ELSE IF b = 0 THEN a
  ELSE (IF (a % 2) + (b % 2) > 0 THEN 1 ELSE 0) + 2 * BitOr(a \div 2, b \div 2)

\* The managed phrase: 8 bytes at a fixed, 8-byte aligned base address.
\* FLASH_DATA_END is the end of the region that address + size must not
\* exceed.
FLASH_DATA_START == <<8, 0>>
FLASH_DATA_END == <<8, 8>>

\* FTFE command opcodes.
PROGRAM_PHRASE == 7
ERASE_SECTOR == 9

NULL == <<0, 0>>

\* An erased phrase: every byte reads 0xFF.
ErasedPhrase == [i \in 0..7 |-> 255]

\* allocMask = (1 << size) - 1 with one bit too few.
AllocMask_Short(size) == ((2 ^ size) \div 2) % 256

\* uint8_t allocMask = (1 << size) - 1.
AllocMask(size) == ((2 ^ size) - 1) % 256

\* The for loop of Flash_AllocateVar, from offset on.
RECURSIVE AllocLoop(_, _, _, _, _)
AllocLoop(avail, var, size, offset, allocMask) ==
  IF offset < 8
  THEN IF BitAnd(allocMask, avail) = 0
       THEN [availableBytes |-> BitOr(avail, allocMask),
             variable |-> Add32(FLASH_DATA_START, offset),
             result |-> TRUE]
       ELSE AllocLoop(avail, var, size, (offset + size) % 256, (allocMask * (2 ^ size)) % 256)
  ELSE [availableBytes |-> avail, variable |-> var, result |-> FALSE]

\* Flash_AllocateVar without the size check.
Flash_AllocateVar_NoSizeCheck(avail, var, size) ==
  IF size = 0
  THEN [availableBytes |-> avail, variable |-> var, result |-> FALSE]
  ELSE AllocLoop(avail, var, size, 0, AllocMask(size))

\* Flash_AllocateVar: the bitmap and *variable afterwards, and the result.
Flash_AllocateVar(avail, var, size) ==
  IF size # 1 /\ size # 2 /\ size # 4
  THEN [availableBytes |-> avail, variable |-> var, result |-> FALSE]
  ELSE AllocLoop(avail, var, size, 0, AllocMask(size))

\* SET_DATA storing the bytes of data most significant first.
SetData_BigEndian(phrase, offset, data, size) ==
  [i \in 0..7 |->
     IF i >= offset /\ i < offset + size
     THEN (data \div (256 ^ (size - 1 - (i - offset)))) % 256
     ELSE phrase[i]]

\* SET_DATA storing one byte more than size.
SetData_OneTooMany(phrase, offset, data, size) ==
  [i \in 0..7 |->
     IF i >= offset /\ i < offset + size + 1
     THEN (data \div (256 ^ (i - offset))) % 256
     ELSE phrase[i]]

\* SET_DATA(type, dataPtr, data): the size bytes of *data are stored at
\* offset of the copy of the phrase, least significant byte first.
SetData(phrase, offset, data, size) ==
  [i \in 0..7 |->
     IF i >= offset /\ i < offset + size
     THEN (data \div (256 ^ (i - offset))) % 256
     ELSE phrase[i]]

\* ModifySector with & in place of &&: the phrase is programmed whatever
\* the erase reported.
ModifySector_NoShortCircuit(fl, phrase, eraseOk, programOk) ==
  IF ~programOk
  THEN [flash |-> IF eraseOk THEN ErasedPhrase ELSE fl, result |-> FALSE,
        launched |-> <<ERASE_SECTOR, PROGRAM_PHRASE>>, fault |-> FALSE]
  ELSE [flash |-> IF eraseOk THEN phrase ELSE fl, result |-> eraseOk,
        launched |-> <<ERASE_SECTOR, PROGRAM_PHRASE>>, fault |-> FALSE]

\* ModifySector: EraseSector(address) && WritePhrase(address, phrase).
\* LaunchCommand returns false when the hardware raised FPVIOL or ACCERR;
\* the command then did not run.  Programming the erased phrase stores phrase.
ModifySector(fl, phrase, eraseOk, programOk) ==
  IF ~eraseOk
  THEN [flash |-> fl, result |-> FALSE, launched |-> <<ERASE_SECTOR>>, fault |-> FALSE]
  ELSE IF ~programOk
  THEN [flash |-> ErasedPhrase, result |-> FALSE,
        launched |-> <<ERASE_SECTOR, PROGRAM_PHRASE>>, fault |-> FALSE]
  ELSE [flash |-> phrase, result |-> TRUE,
        launched |-> <<ERASE_SECTOR, PROGRAM_PHRASE>>, fault |-> FALSE]

\* What the hardware does during one Flash_WriteN: no error, an error
\* flag after the erase command or after the program command, or a
\* processor fault where the code's behaviour is undefined.
HwOutcomes == {"ok", "eraseError", "programError", "fault"}

\* The checks of Flash_WriteN before it touches the flash: the bounds
\* check, the alignment check and the switch on size.  "store" is a pass;
\* address % size with size = 0 is undefined ("zeroDivide"), and so is the
\* store through dataPtr when it points outside the copy of the phrase
\* ("strayStore").
CheckWriteN(address, size) ==
  LET offset == Sub32(address, FLASH_DATA_START) IN
    IF Less32(address, FLASH_DATA_START) \/ Less32(FLASH_DATA_END, Add32(address, size))
    THEN "reject"
    ELSE IF size = 0
    THEN "zeroDivide"
    ELSE IF Mod32(address, size) # 0
    THEN "reject"
    ELSE IF size # 1 /\ size # 2 /\ size # 4
    THEN "reject"
    ELSE IF offset[1] = 0 /\ offset[2] + size <= 8
    THEN "store"
    ELSE "strayStore"

\* Flash_WriteN.  Where the behaviour is undefined the processor faults, or
\* the remainder of the division by 0 is the address itself (not 0), and
\* the stray store leaves the copy of the phrase as it was.
Flash_WriteN(fl, address, data, size, hw) ==
  LET check == CheckWriteN(address, size)
      eraseOk == hw # "eraseError"
      programOk == hw # "programError"
      Reject == [flash |-> fl, result |-> FALSE, launched |-> <<>>, fault |-> FALSE]
      Fault == [flash |-> fl, result |-> FALSE, launched |-> <<>>, fault |-> TRUE]
  IN IF check = "reject" THEN Reject
     ELSE IF check = "zeroDivide" THEN (IF hw = "fault" THEN Fault ELSE Reject)
     ELSE IF check = "store"
     THEN ModifySector(fl, SetData(fl, Sub32(address, FLASH_DATA_START)[2], data, size),
                       eraseOk, programOk)
     ELSE IF hw = "fault" THEN Fault
     ELSE ModifySector(fl, fl, eraseOk, programOk)

\* The hardware outcomes that make a difference to this Flash_WriteN.
RelevantOutcomes(address, size) ==
  LET check == CheckWriteN(address, size) IN
    IF check = "reject" THEN {"ok"}
    ELSE IF check = "zeroDivide" THEN {"ok", "fault"}
    ELSE IF check = "store" THEN {"ok", "eraseError", "programError"}
    ELSE HwOutcomes

\* The bytes at address .. address + size - 1 of the phrase, as the read
\* macros _FB, _FH and _FW deliver them: least significant byte first.
FlashRead(fl, offset, size) ==
  IF size = 1 THEN fl[offset]
  ELSE IF size = 2 THEN fl[offset] + 256 * fl[offset + 1]
  ELSE fl[offset] + 256 * (fl[offset + 1] + 256 * (fl[offset + 2] + 256 * fl[offset + 3]))

\* A phrase programmed by an earlier run of the firmware.
StoredPhrase == [i \in 0..7 |-> 16 * (i + 1)]

\* Flash_Init; nothing was allocated or written, the phrase is erased.
FlashInit ==
  /\ availableBytes = 0
  /\ variable = NULL
  /\ allocated = {}
  /\ flash = ErasedPhrase
  /\ flashCall = [op |-> "none", address |-> NULL, size |-> 0, data |-> 0, hw |-> "ok",
                  launched |-> <<>>, writeN |-> FALSE, result |-> FALSE]
  /\ flashOps = 0
  /\ flashFault = FALSE

\* Sizes passed to Flash_AllocateVar and Flash_WriteN.
Sizes == 0..MaxSize

\* A value of size bytes whose bytes all differ.
TestValue(d, size) ==
  IF size = 1 THEN d + 1
  ELSE IF size = 2 THEN (d + 1) + 256 * (d + 2)
  ELSE (d + 1) + 256 * ((d + 2) + 256 * ((d + 3) + 256 * (d + 4)))

\* Addresses passed to the write functions: the byte below the phrase, the
\* phrase, the two bytes above it, and the last addresses of the 32-bit
\* address space.
WriteAddresses ==
  {<<7, Half - 1>>} \cup {<<8, lo>> : lo \in 0..9}
    \cup {<<Half - 1, Half - 1>>, <<Half - 1, Half - 2>>, <<Half - 1, Half - 4>>}

\* A call of Flash_AllocateVar(&variable, size).
AllocateVar(size) ==
  /\ ~flashFault
  /\ LET r == Flash_AllocateVar(availableBytes, variable, size) IN
       /\ availableBytes' = r.availableBytes
       /\ variable' = r.variable
       /\ allocated' = IF r.result
                       THEN allocated \cup {<<Sub32(r.variable, FLASH_DATA_START)[2], size>>}
                       ELSE allocated
       /\ flashCall' = [op |-> "Flash_AllocateVar", address |-> NULL, size |-> size, data |-> 0,
                        hw |-> "ok", launched |-> <<>>, writeN |-> FALSE, result |-> r.result]
  /\ UNCHANGED <<flash, flashOps, flashFault>>
  /\ UNCHANGED nonFlashVars

\* A call of Flash_WriteN(address, &data, size).
WriteN(address, data, size) ==
  /\ ~flashFault
  /\ flashOps < MaxFlashOps
  /\ \E hw \in RelevantOutcomes(address, size) :
       LET r == Flash_WriteN(flash, address, data, size, hw) IN
         /\ flash' = r.flash
         /\ flashFault' = r.fault
         /\ flashCall' = [op |-> "Flash_WriteN", address |-> address, size |-> size, data |-> data,
                          hw |-> hw, launched |-> r.launched, writeN |-> r.result, result |-> r.result]
  /\ flashOps' = flashOps + 1
  /\ UNCHANGED <<availableBytes, variable, allocated>>
  /\ UNCHANGED nonFlashVars

\* Flash_Write8, Flash_Write16 and Flash_Write32: each calls Flash_WriteN
\* with its size and has no return statement, so the value the caller reads
\* is not defined by the code.
FlashWrite(op, address, data, size) ==
  /\ ~flashFault
  /\ flashOps < MaxFlashOps
  /\ \E hw \in RelevantOutcomes(address, size), returned \in BOOLEAN :
       LET r == Flash_WriteN(flash, address, data, size, hw) IN
         /\ flash' = r.flash
         /\ flashFault' = r.fault
         /\ flashCall' = [op |-> op, address |-> address, size |-> size, data |-> data,
                          hw |-> hw, launched |-> r.launched, writeN |-> r.result, result |-> returned]
  /\ flashOps' = flashOps + 1
  /\ UNCHANGED <<availableBytes, variable, allocated>>
  /\ UNCHANGED nonFlashVars

Write8(address, data) == FlashWrite("Flash_Write8", address, data, 1)

Write16(address, data) == FlashWrite("Flash_Write16", address, data, 2)

Write32(address, data) == FlashWrite("Flash_Write32", address, data, 4)

\* Flash_Erase that also forgets which bytes were allocated.
Erase_ResetsBitmap ==
  /\ ~flashFault
  /\ flashOps < MaxFlashOps
  /\ \E eraseOk \in BOOLEAN :
       /\ flash' = IF eraseOk THEN ErasedPhrase ELSE flash
       /\ availableBytes' = IF eraseOk THEN 0 ELSE availableBytes
       /\ flashCall' = [op |-> "Flash_Erase", address |-> NULL, size |-> 0, data |-> 0,
                        hw |-> IF eraseOk THEN "ok" ELSE "eraseError",
                        launched |-> <<ERASE_SECTOR>>, writeN |-> FALSE, result |-> eraseOk]
  /\ flashOps' = flashOps + 1
  /\ UNCHANGED <<variable, allocated, flashFault>>
  /\ UNCHANGED nonFlashVars

\* Flash_Erase: EraseSector(FLASH_DATA_START).
Erase ==
  /\ ~flashFault
  /\ flashOps < MaxFlashOps
  /\ \E eraseOk \in BOOLEAN :
       /\ flash' = IF eraseOk THEN ErasedPhrase ELSE flash
       /\ flashCall' = [op |-> "Flash_Erase", address |-> NULL, size |-> 0, data |-> 0,
                        hw |-> IF eraseOk THEN "ok" ELSE "eraseError",
                        launched |-> <<ERASE_SECTOR>>, writeN |-> FALSE, result |-> eraseOk]
  /\ flashOps' = flashOps + 1
  /\ UNCHANGED <<availableBytes, variable, allocated, flashFault>>
  /\ UNCHANGED nonFlashVars

(***************************************************************************)
(* main.c: the packet handlers                                             *)
(***************************************************************************)

\* Tower command opcodes (enum TowerCommand).
FLASH_PROG == 7
FLASH_READ == 8
TOWER_NUMBER == 11
TOWER_MODE == 13

\* Bit 7 of the command byte (const uint8_t PACKET_ACK_MASK = 1 << 7).
PACKET_ACK_MASK == 128

\* Protocol modes (enum ProtocolMode).
ASYNCHRONOUS == 0
SYNCHRONOUS == 1

\* The globals of main.c before main runs: statics are zeroed.
MainInit ==
  /\ TowerProtocolMode = ASYNCHRONOUS
  /\ NvTowerNb = NULL
  /\ NvTowerMode = NULL
  /\ RTC_TSR = 1
  /\ dispatch = [nb |-> 0, handled |-> FALSE, responses |-> <<>>, ack |-> <<>>]
  /\ startup = <<>>
  /\ flashAtReset = flash

\* Packet_Parameter23: parameters 2 and 3 read as one half-word.
Packet_Parameter23(p) == p.Parameter2 + 256 * p.Parameter3

\* _FB(address): the byte of the phrase at address.
ReadByte(fl, address) ==
  LET o == Sub32(address, FLASH_DATA_START) IN
    IF o[1] = 0 /\ o[2] < 8 THEN fl[o[2]] ELSE 0

\* What a handler that made no Flash call leaves behind: its result and its
\* Packet_Put calls; s holds the globals the handlers read and write.
Handled(s, ok, out) ==
  [result |-> ok, puts |-> out, mode |-> s.mode, fl |-> s.fl, tsr |-> s.tsr,
   fault |-> FALSE, call |-> <<>>]

\* What a handler that ends in a Flash call leaves behind.
HandledByFlash(s, ok, fl, fault, call) ==
  [result |-> ok, puts |-> <<>>, mode |-> s.mode, fl |-> fl, tsr |-> s.tsr,
   fault |-> fault, call |-> <<call>>]

\* The arguments of the Packet_Put of SendStartup .. SendProtocolMode.
SendStartup == <<STARTUP, 0, 0, 0>>

SendVersion == <<SPECIAL, 118, 5, 0>>

SendTowerNumber(s) == <<TOWER_NUMBER, 1, ReadByte(s.fl, s.nb), ReadByte(s.fl, Add32(s.nb, 1))>>

SendTowerMode(s) == <<TOWER_MODE, 1, ReadByte(s.fl, s.md), ReadByte(s.fl, Add32(s.md, 1))>>

SendProtocolMode(s) == <<PROTOCOL_MODE, 1, s.mode, 0>>

HandleStartup(p, s) ==
  IF p.Parameter1 = 0 /\ p.Parameter2 = 0 /\ p.Parameter3 = 0
  THEN Handled(s, TRUE, <<SendStartup, SendVersion, SendTowerNumber(s), SendTowerMode(s),
                          SendProtocolMode(s)>>)
  ELSE Handled(s, FALSE, <<>>)

\* A handler's call of Flash_Write8 or Flash_Write16: the wrapper has no
\* return statement, so the handler returns a value the code does not define.
HandlerWrite(op, s, address, data, size, hw, returned) ==
  LET r == Flash_WriteN(s.fl, address, data, size, hw) IN
    HandledByFlash(s, returned, r.flash, r.fault,
                   [op |-> op, address |-> address, size |-> size, data |-> data, hw |-> hw,
                    launched |-> r.launched, writeN |-> r.result, result |-> returned])

HandleProgramByte(p, s, hw, returned) ==
  IF p.Parameter2 # 0 \/ p.Parameter1 > 8
  THEN Handled(s, FALSE, <<>>)
  ELSE IF p.Parameter1 = 8
  THEN LET eraseOk == hw # "eraseError" IN
         HandledByFlash(s, eraseOk, IF eraseOk THEN ErasedPhrase ELSE s.fl, FALSE,
                        [op |-> "Flash_Erase", address |-> NULL, size |-> 0, data |-> 0,
                         hw |-> IF eraseOk THEN "ok" ELSE "eraseError",
                         launched |-> <<ERASE_SECTOR>>, writeN |-> FALSE, result |-> eraseOk])
  ELSE HandlerWrite("Flash_Write8", s, Add32(FLASH_DATA_START, p.Parameter1), p.Parameter3, 1,
                    hw, returned)

HandleReadByte(p, s) ==
  IF Packet_Parameter23(p) # 0 \/ p.Parameter1 > 7
  THEN Handled(s, FALSE, <<>>)
  ELSE Handled(s, TRUE, << <<FLASH_READ, p.Parameter1, 0,
                             ReadByte(s.fl, Add32(FLASH_DATA_START, p.Parameter1))>> >>)

HandleTowerMode(p, s, hw, returned) ==
  IF p.Parameter1 = 1 /\ Packet_Parameter23(p) = 0
  THEN Handled(s, TRUE, <<SendTowerMode(s)>>)
  ELSE IF p.Parameter1 = 2
  THEN HandlerWrite("Flash_Write16", s, s.md, Packet_Parameter23(p), 2, hw, returned)
  ELSE Handled(s, FALSE, <<>>)

HandleProtocolMode(p, s) ==
  IF p.Parameter1 = 1 /\ Packet_Parameter23(p) = 0
  THEN Handled(s, TRUE, <<SendProtocolMode(s)>>)
  ELSE IF p.Parameter1 = 2 /\ p.Parameter2 <= 1 /\ p.Parameter3 = 0
  THEN [Handled(s, TRUE, <<>>) EXCEPT !.mode = p.Parameter2]
  ELSE Handled(s, FALSE, <<>>)

HandleSpecial(p, s) ==
  IF p.Parameter1 = 118 /\ p.Parameter2 = 120 /\ p.Parameter3 = 13
  THEN Handled(s, TRUE, <<SendVersion>>)
  ELSE Handled(s, FALSE, <<>>)

HandleTowerNumber(p, s, hw, returned) ==
  IF p.Parameter1 = 1 /\ Packet_Parameter23(p) = 0
  THEN Handled(s, TRUE, <<SendTowerNumber(s)>>)
  ELSE IF p.Parameter1 = 2
  THEN HandlerWrite("Flash_Write16", s, s.nb, Packet_Parameter23(p), 2, hw, returned)
  ELSE Handled(s, FALSE, <<>>)

\* RTC_Set: the value written to the time seconds register.
RTC_Set(hours, minutes, seconds) == (hours * 60 * 60) + (minutes * 60) + seconds

\* RTC_Get: the three uint8_t outputs computed from the time seconds
\* register; the quotient time / 3600 is stored in the uint8_t *hours.
RTC_Get(time) ==
  [hours |-> (time \div (60 * 60)) % 256,
   minutes |-> ((time % (60 * 60)) \div 60) % 256,
   seconds |-> ((time % (60 * 60)) % 60) % 256]

\* SendTime: Packet_Put(TIME, hours, minutes, seconds) with the outputs of
\* RTC_Get.
SendTime(time) ==
  LET t == RTC_Get(time) IN <<TIME, t.hours, t.minutes, t.seconds>>

\* HandleSetTime; RTC_Set writes the time seconds register.
HandleSetTime(p, s) ==
  IF p.Parameter1 >= 24 \/ p.Parameter2 >= 60 \/ p.Parameter3 >= 60
  THEN Handled(s, FALSE, <<>>)
  ELSE [Handled(s, TRUE, <<>>) EXCEPT
          !.tsr = RTC_Set(p.Parameter1, p.Parameter2, p.Parameter3)]

\* HandlePacket: the switch on Packet_Command & ~PACKET_ACK_MASK.
HandlePacket(p, s, hw, returned) ==
  LET opcode == BitAnd(p.Command, 255 - PACKET_ACK_MASK) IN
    IF opcode = STARTUP THEN HandleStartup(p, s)
    ELSE IF opcode = FLASH_PROG THEN HandleProgramByte(p, s, hw, returned)
    ELSE IF opcode = FLASH_READ THEN HandleReadByte(p, s)
    ELSE IF opcode = SPECIAL THEN HandleSpecial(p, s)
    ELSE IF opcode = TOWER_NUMBER THEN HandleTowerNumber(p, s, hw, returned)
    ELSE IF opcode = TIME THEN HandleSetTime(p, s)
    ELSE IF opcode = TOWER_MODE THEN HandleTowerMode(p, s, hw, returned)
    ELSE IF opcode = PROTOCOL_MODE THEN HandleProtocolMode(p, s)
    ELSE Handled(s, FALSE, <<>>)

\* acknowledgeMask with the success bit in bit 0.
AcknowledgeMask_NoShift(wasSuccess) ==
  BitOr(IF wasSuccess THEN 1 ELSE 0, 255 - PACKET_ACK_MASK) % 256

\* const uint8_t acknowledgeMask = (wasSuccess << 7) | ~PACKET_ACK_MASK.
AcknowledgeMask(wasSuccess) ==
  BitOr((IF wasSuccess THEN 1 ELSE 0) * (2 ^ 7), 255 - PACKET_ACK_MASK) % 256

\* SendAcknowledgeIfRequired: the arguments of its Packet_Put call, if any.
SendAcknowledgeIfRequired(p, wasSuccess) ==
  IF BitAnd(p.Command, PACKET_ACK_MASK) # 0
  THEN << <<BitAnd(p.Command, AcknowledgeMask(wasSuccess)), p.Parameter1, p.Parameter2,
            p.Parameter3>> >>
  ELSE <<>>

\* AllocateAndSet writing the default whatever the variable holds.
AllocateAndSet_AlwaysWrites(avail, fl, addressPtr, dataIfEmpty, hw) ==
  LET a == Flash_AllocateVar(avail, addressPtr, 2)
      w == Flash_WriteN(fl, a.variable, dataIfEmpty, 2, hw)
  IN IF a.result
     THEN [availableBytes |-> a.availableBytes, addressPtr |-> a.variable, allocated |-> TRUE,
           flash |-> w.flash, fault |-> w.fault,
           call |-> <<[op |-> "Flash_Write16", address |-> a.variable, size |-> 2,
                       data |-> dataIfEmpty, hw |-> hw, launched |-> w.launched,
                       writeN |-> w.result, result |-> w.result]>>]
     ELSE [availableBytes |-> a.availableBytes, addressPtr |-> a.variable, allocated |-> FALSE,
           flash |-> fl, fault |-> FALSE, call |-> <<>>]

\* AllocateAndSet(addressPtr, dataIfEmpty): Flash_AllocateVar of a half-word,
\* and Flash_Write16 of the default when the half-word reads 0xFFFF.  The
\* value Flash_Write16 returns is not used.
AllocateAndSet(avail, fl, addressPtr, dataIfEmpty, hw) ==
  LET a == Flash_AllocateVar(avail, addressPtr, 2)
      w == Flash_WriteN(fl, a.variable, dataIfEmpty, 2, hw)
  IN IF a.result /\ FlashRead(fl, Sub32(a.variable, FLASH_DATA_START)[2], 2) = 65535
     THEN [availableBytes |-> a.availableBytes, addressPtr |-> a.variable, allocated |-> TRUE,
           flash |-> w.flash, fault |-> w.fault,
           call |-> <<[op |-> "Flash_Write16", address |-> a.variable, size |-> 2,
                       data |-> dataIfEmpty, hw |-> hw, launched |-> w.launched,
                       writeN |-> w.result, result |-> w.result]>>]
     ELSE [availableBytes |-> a.availableBytes, addressPtr |-> a.variable, allocated |-> a.result,
           flash |-> fl, fault |-> FALSE, call |-> <<>>]

\* The defaults of main: tower mode 1 and tower number 4718.
DefaultTowerMode == 1
DefaultTowerNb == 4718

\* The two AllocateAndSet calls of main, in program order: &NvTowerMode
\* first, &NvTowerNb second.
Main_AllocateAndSet(outcomes) ==
  /\ Len(startup) < 2
  /\ \E hw \in outcomes :
       LET first == Len(startup) = 0
           r == AllocateAndSet(availableBytes, flash,
                               IF first THEN NvTowerMode ELSE NvTowerNb,
                               IF first THEN DefaultTowerMode ELSE DefaultTowerNb, hw)
       IN /\ availableBytes' = r.availableBytes
          /\ variable' = r.addressPtr
          /\ allocated' = IF r.allocated
                          THEN allocated \cup {<<Sub32(r.addressPtr, FLASH_DATA_START)[2], 2>>}
                          ELSE allocated
          /\ NvTowerMode' = IF first THEN r.addressPtr ELSE NvTowerMode
          /\ NvTowerNb' = IF first THEN NvTowerNb ELSE r.addressPtr
          /\ flash' = r.flash
          /\ flashFault' = r.fault
          /\ flashCall' = IF r.call = <<>>
                          THEN [op |-> "Flash_AllocateVar", address |-> NULL, size |-> 2,
                                data |-> 0, hw |-> "ok", launched |-> <<>>, writeN |-> FALSE,
                                result |-> r.allocated]
                          ELSE r.call[1]
          /\ startup' = Append(startup, [wrote |-> r.call # <<>>,
                                         writeN |-> r.call # <<>> /\ r.call[1].writeN])
  /\ UNCHANGED <<flashOps, TowerProtocolMode, RTC_TSR, dispatch, flashAtReset>>
  /\ UNCHANGED <<fifoVars, packetVars, putVars, sysVars, periphVars>>

\* Packets the PC sends: every opcode of the switch and one that is not
\* handled, with and without the acknowledgement bit, and parameters that
\* the handlers accept and reject.
RxPackets ==
  [Command : {c + a : c \in {STARTUP, FLASH_PROG, FLASH_READ, SPECIAL, PROTOCOL_MODE,
                             TOWER_NUMBER, TIME, TOWER_MODE, ANALOG_INPUT},
                      a \in {0, PACKET_ACK_MASK}},
   Parameter1 : {0, 1, 2, 8, 118},
   Parameter2 : {0, 1, 120},
   Parameter3 : {0, 13}]

\* The outcomes of the flash commands, and the values an undefined return
\* may take, that make a difference to the handling of p.
FlashOutcomesFor(p) ==
  IF BitAnd(p.Command, 255 - PACKET_ACK_MASK) \in {FLASH_PROG, TOWER_NUMBER, TOWER_MODE}
  THEN {"ok", "eraseError", "programError"} \X BOOLEAN
  ELSE {<<"ok", TRUE>>}

\* Flash calls the handlers make are counted like the others.
FlashCallsOf(h) == Len(h.call)

\* One iteration of the loop of ProtocolProcessingThread after Packet_Get
\* published the packet p: HandlePacket, then SendAcknowledgeIfRequired.
Dispatch(p) ==
  /\ ~flashFault
  /\ Len(startup) = 2
  /\ dispatch.nb < MaxPackets
  /\ \E o \in FlashOutcomesFor(p) :
       LET s == [mode |-> TowerProtocolMode, fl |-> flash, tsr |-> RTC_TSR,
                 nb |-> NvTowerNb, md |-> NvTowerMode]
           h == HandlePacket(p, s, o[1], o[2])
       IN /\ flashOps + FlashCallsOf(h) <= MaxFlashOps
          /\ Packet' = p
          /\ TowerProtocolMode' = h.mode
          /\ RTC_TSR' = h.tsr
          /\ flash' = h.fl
          /\ flashFault' = h.fault
          /\ flashOps' = flashOps + FlashCallsOf(h)
          /\ flashCall' = IF h.call = <<>> THEN flashCall ELSE h.call[1]
          /\ dispatch' = [nb |-> dispatch.nb + 1, handled |-> h.result, responses |-> h.puts,
                          ack |-> SendAcknowledgeIfRequired(p, h.result)]
  /\ UNCHANGED <<availableBytes, variable, allocated, NvTowerNb, NvTowerMode, startup, flashAtReset>>
  /\ UNCHANGED <<PacketBuf, BufNbBytes, rxStream, consumed, emitted, discards, reported, sent, recent>>
  /\ UNCHANGED <<fifoVars, putVars, sysVars, periphVars>>

(***************************************************************************)
(* median.c: Median_Filter                                                 *)
(***************************************************************************)
\* analog.h: the sliding window of a channel holds 5 samples.
ANALOG_WINDOW_SIZE == 5

\* The half-words the analog inputs deliver.
Samples == (-1)..MaxSample

\* Division of int in C: the quotient is truncated towards zero.
CDiv(a, b) == IF a >= 0 THEN a \div b ELSE -((-a) \div b)

\* The conversion of an int to int16_t.
Int16(x) == ((x + 32768) % 65536) - 32768

\* qsort with delta: the elements in ascending order.
RECURSIVE InsertSorted(_, _)
InsertSorted(sorted, x) ==
  IF sorted = <<>> THEN <<x>>
  ELSE IF x - sorted[1] <= 0 THEN <<x>> \o sorted
  ELSE <<sorted[1]>> \o InsertSorted(Tail(sorted), x)

RECURSIVE qsort(_)
qsort(array) ==
  IF array = <<>> THEN <<>> ELSE InsertSorted(qsort(Tail(array)), array[1])

\* The switch of Median_Filter on size: the sizes answered without sorting.
\* array[0] of the code is array[1] here.
MedianSmall(array, size) ==
  IF size = 0 THEN 0
  ELSE IF size = 1 THEN array[1]
  ELSE IF size = 2 THEN Int16(CDiv(array[1] + array[2], 2))
  ELSE array[2]

\* The median of the sorted copy.
MedianSorted(sorted, size) ==
  IF size % 2 = 1
  THEN sorted[(size \div 2) + 1]
  ELSE Int16(CDiv(sorted[size \div 2] + sorted[(size \div 2) + 1], 2))

\* Median_Filter of Lab 5: the copy is sorted in the static arrayForCloning.
Median_Filter(array, size) ==
  IF size <= 3 THEN MedianSmall(array, size)
  ELSE MedianSorted(qsort(SubSeq(array, 1, size)), size)

\* Median_Filter of Lab 4: the copy is sorted in memory from malloc, and
\* the function returns 0 when malloc returns NULL.
Lab4_Median_Filter(array, size, cpyOk) ==
  IF size <= 3 THEN MedianSmall(array, size)
  ELSE IF ~cpyOk THEN 0
  ELSE MedianSorted(qsort(SubSeq(array, 1, size)), size)

\* Median_Filter was not called.
MedianIdle == [called |-> FALSE, lab |-> "none", value |-> 0]

\* A call of Median_Filter of Lab 5 on the whole array.
Median_Call ==
  /\ ~medianOut.called
  /\ medianOut' = [called |-> TRUE, lab |-> "Lab5",
                   value |-> Median_Filter(medianArg, Len(medianArg))]
  /\ UNCHANGED <<sysPc, sem, pending, lowIsHigh, toggleCallback, ftmArmed,
                 arrayForCloning, analogValue, isrOps, irqCount, medianArg>>
  /\ UNCHANGED <<fifoVars, packetVars, putVars, flashVars, mainVars, periphVars>>

\* A call of Median_Filter of Lab 4 on the whole array; malloc succeeds or not.
Lab4_Median_Call ==
  /\ ~medianOut.called
  /\ \E cpyOk \in BOOLEAN :
       /\ (Len(medianArg) <= 3 => cpyOk)
       /\ medianOut' = [called |-> TRUE, lab |-> "Lab4",
                        value |-> Lab4_Median_Filter(medianArg, Len(medianArg), cpyOk)]
  /\ UNCHANGED <<sysPc, sem, pending, lowIsHigh, toggleCallback, ftmArmed,
                 arrayForCloning, analogValue, isrOps, irqCount, medianArg>>
  /\ UNCHANGED <<fifoVars, packetVars, putVars, flashVars, mainVars, periphVars>>

(***************************************************************************)
(* main.c of Lab 5: the threads and the interrupt handlers                 *)
(***************************************************************************)
SysThreads == {"Protocol", "RTC", "FTM", "Analog0", "Analog1"}

AnalogThreads == {"Analog0", "Analog1"}

\* The priorities main passes to OS_ThreadCreate.
Priority(t) ==
  IF t = "Protocol" THEN 1
  ELSE IF t = "RTC" THEN 6
  ELSE IF t = "FTM" THEN 7
  ELSE IF t = "Analog0" THEN 10
  ELSE 9

\* settings.ChannelNb of an analog thread.
ChannelNb(t) == IF t = "Analog0" THEN 0 ELSE 1

\* The semaphore a thread waits on at the top of its loop; the protocol
\* thread waits in Packet_Get for the receive FIFO.
SemaphoreOf(t) ==
  IF t = "Protocol" THEN "RxFIFO"
  ELSE IF t = "RTC" THEN "RTCSemaphore"
  ELSE IF t = "FTM" THEN "LedTimerChannel"
  ELSE t

Semaphores == {SemaphoreOf(t) : t \in SysThreads}

\* The first statement of the loop of a thread.
LoopStart(t) == IF t = "Protocol" THEN "Packet_Get" ELSE "WaitForever"

\* The RTC thread erases the flash when it wakes up.
AfterWait_RTCErases(t) ==
  IF t = "RTC" THEN "EraseSector"
  ELSE IF t = "FTM" THEN "LEDs_Off"
  ELSE "memcpy"

\* The statement a thread executes after WaitForever returned.
AfterWait(t) ==
  IF t = "RTC" THEN "LEDs_Toggle"
  ELSE IF t = "FTM" THEN "LEDs_Off"
  ELSE "memcpy"

\* No Flash call in progress.
NoFlashCall == [launched |-> <<>>, phrase |-> ErasedPhrase, hw |-> "ok", handled |-> FALSE]

\* The threads were created and none has run; no interrupt was served.
SysInit ==
  /\ sysPc = [t \in SysThreads |-> IF t = "Protocol" THEN "HandleStartup" ELSE "WaitForever"]
  /\ sem = [s \in Semaphores |-> 0]
  /\ pending = [t \in SysThreads |-> NoFlashCall]
  /\ toggleCallback = 0
  /\ ftmArmed = FALSE
  /\ arrayForCloning = 0
  /\ analogValue = [c \in {0, 1} |-> c]
  /\ isrOps = [isr |-> "none", ops |-> {}]
  /\ irqCount = 0

SystemInit ==
  /\ SysInit
  /\ lowIsHigh = TRUE
  /\ medianArg = <<>>
  /\ medianOut = MedianIdle

\* The interrupts are enabled and the threads run once main called __EI and
\* OS_Start, after its two AllocateAndSet calls.
Started == cfg = "Lab5" /\ Len(startup) = 2

\* OS_SemaphoreWait that returns at once, whatever the count.
Blocked_NoSuspend(t) == FALSE

\* A thread is suspended in OS_SemaphoreWait while the count is 0.
Blocked(t) == sysPc[t] = LoopStart(t) /\ sem[SemaphoreOf(t)] = 0

\* u has a higher priority than t.
Higher(u, t) ==
  IF lowIsHigh THEN Priority(u) < Priority(t) ELSE Priority(u) > Priority(t)

\* The RTOS runs the thread of highest priority that is not suspended.
Runs(t) ==
  /\ Started
  /\ ~Blocked(t)
  /\ \A u \in SysThreads \ {t} : Blocked(u) \/ ~Higher(u, t)

\* WaitForever(semaphore) returns in the RTC, FTM and analog threads.
Thread_WaitForever(t) ==
  /\ t # "Protocol"
  /\ sysPc[t] = "WaitForever"
  /\ Runs(t)
  /\ sem' = [sem EXCEPT ![SemaphoreOf(t)] = @ - 1]
  /\ sysPc' = [sysPc EXCEPT ![t] = AfterWait(t)]
  /\ UNCHANGED <<pending, lowIsHigh, toggleCallback, ftmArmed, arrayForCloning,
                 analogValue, isrOps, irqCount, medianArg, medianOut>>
  /\ UNCHANGED <<fifoVars, packetVars, putVars, flashVars, mainVars, periphVars>>

\* RTCTimerThread: LEDs_Toggle(LED_YELLOW) and SendTime(), whose Packet_Put
\* takes PutMutex and gives it back.
RTC_LEDs_Toggle ==
  /\ sysPc["RTC"] = "LEDs_Toggle"
  /\ Runs("RTC")
  /\ sysPc' = [sysPc EXCEPT !["RTC"] = "WaitForever"]
  /\ UNCHANGED <<sem, pending, lowIsHigh, toggleCallback, ftmArmed, arrayForCloning,
                 analogValue, isrOps, irqCount, medianArg, medianOut>>
  /\ UNCHANGED <<fifoVars, packetVars, putVars, flashVars, mainVars, periphVars>>

\* FTMLightThread: LEDs_Off(LED_BLUE).
FTM_LEDs_Off ==
  /\ sysPc["FTM"] = "LEDs_Off"
  /\ Runs("FTM")
  /\ sysPc' = [sysPc EXCEPT !["FTM"] = "WaitForever"]
  /\ UNCHANGED <<sem, pending, lowIsHigh, toggleCallback, ftmArmed, arrayForCloning,
                 analogValue, isrOps, irqCount, medianArg, medianOut>>
  /\ UNCHANGED <<fifoVars, packetVars, putVars, flashVars, mainVars, periphVars>>

\* Median_Filter in an analog thread: memcpy(arrayForCloning, array, ...).
\* The window has 5 samples, so the switch on size falls through.
Analog_memcpy(t) ==
  /\ t \in AnalogThreads
  /\ sysPc[t] = "memcpy"
  /\ Runs(t)
  /\ arrayForCloning' = ChannelNb(t)
  /\ sysPc' = [sysPc EXCEPT ![t] = "qsort"]
  /\ UNCHANGED <<sem, pending, lowIsHigh, toggleCallback, ftmArmed,
                 analogValue, isrOps, irqCount, medianArg, medianOut>>
  /\ UNCHANGED <<fifoVars, packetVars, putVars, flashVars, mainVars, periphVars>>

\* qsort(arrayForCloning, ...) sorts whatever the array holds in place, and
\* result = arrayForCloning[size / 2] is stored in settings.Values->value.
Analog_qsort(t) ==
  /\ t \in AnalogThreads
  /\ sysPc[t] = "qsort"
  /\ Runs(t)
  /\ analogValue' = [analogValue EXCEPT ![ChannelNb(t)] = arrayForCloning]
  /\ sysPc' = [sysPc EXCEPT ![t] = "TowerProtocolMode"]
  /\ UNCHANGED <<sem, pending, lowIsHigh, toggleCallback, ftmArmed, arrayForCloning,
                 isrOps, irqCount, medianArg, medianOut>>
  /\ UNCHANGED <<fifoVars, packetVars, putVars, flashVars, mainVars, periphVars>>

\* if (TowerProtocolMode == SYNCHRONOUS) SendAnalogValue(...): the thread
\* reads the mode, and sends the value or not.
Analog_TowerProtocolMode(t) ==
  /\ t \in AnalogThreads
  /\ sysPc[t] = "TowerProtocolMode"
  /\ Runs(t)
  /\ sysPc' = [sysPc EXCEPT ![t] = "WaitForever"]
  /\ UNCHANGED <<sem, pending, lowIsHigh, toggleCallback, ftmArmed, arrayForCloning,
                 analogValue, isrOps, irqCount, medianArg, medianOut>>
  /\ UNCHANGED <<fifoVars, packetVars, putVars, flashVars, mainVars, periphVars>>

\* The globals the handlers read and write.
Globals ==
  [mode |-> TowerProtocolMode, fl |-> flash, tsr |-> RTC_TSR, nb |-> NvTowerNb,
   md |-> NvTowerMode]

\* The packet HandleStartup of the thread's first statement is called for.
StartupPacket == [Command |-> STARTUP, Parameter1 |-> 0, Parameter2 |-> 0, Parameter3 |-> 0]

\* ProtocolProcessingThread: HandleStartup() before the loop, with its five
\* Packet_Put calls.
Protocol_HandleStartup ==
  /\ sysPc["Protocol"] = "HandleStartup"
  /\ Runs("Protocol")
  /\ HandleStartup(StartupPacket, Globals).result
  /\ sysPc' = [sysPc EXCEPT !["Protocol"] = "Packet_Get"]
  /\ UNCHANGED <<sem, pending, lowIsHigh, toggleCallback, ftmArmed, arrayForCloning,
                 analogValue, isrOps, irqCount, medianArg, medianOut>>
  /\ UNCHANGED <<fifoVars, packetVars, putVars, flashVars, mainVars, periphVars>>

\* The packets the PC sends while the threads run: set the protocol mode,
\* program a byte, and erase the flash.
SysPackets ==
  {[Command |-> PROTOCOL_MODE, Parameter1 |-> 2, Parameter2 |-> 1, Parameter3 |-> 0],
   [Command |-> FLASH_PROG, Parameter1 |-> 0, Parameter2 |-> 0, Parameter3 |-> 13],
   [Command |-> FLASH_PROG, Parameter1 |-> 8, Parameter2 |-> 0, Parameter3 |-> 0]}

\* The packets whose handler calls Flash_Write8 or Flash_Erase.
WritesFlash(p) == p.Command = FLASH_PROG

\* Packet_Get returns with a packet of the PC in Packet; LEDs_On(LED_BLUE)
\* and FTM_StartTimer(&LedTimerChannel) follow.
Protocol_Packet_Get ==
  /\ sysPc["Protocol"] = "Packet_Get"
  /\ Runs("Protocol")
  /\ sem' = [sem EXCEPT !["RxFIFO"] = @ - 1]
  /\ \E p \in SysPackets :
       /\ WritesFlash(p) => flashOps < MaxFlashOps
       /\ Packet' = p
  /\ ftmArmed' = TRUE
  /\ sysPc' = [sysPc EXCEPT !["Protocol"] = "HandlePacket"]
  /\ UNCHANGED <<PacketBuf, BufNbBytes, rxStream, consumed, emitted, discards, reported, sent, recent>>
  /\ UNCHANGED <<pending, lowIsHigh, toggleCallback, arrayForCloning,
                 analogValue, isrOps, irqCount, medianArg, medianOut>>
  /\ UNCHANGED <<fifoVars, putVars, flashVars, mainVars, periphVars>>

\* The outcomes of the flash commands of a handler, with the value its
\* Flash_Write8 returns to it.
SysOutcomes == {<<"ok", TRUE>>, <<"eraseError", FALSE>>, <<"programError", FALSE>>}

\* HandlePacket and SendAcknowledgeIfRequired with their Packet_Put calls
\* or, in a handler that writes the flash, HandlePacket up to the erase
\* command: Flash_WriteN has checked its arguments and copied the phrase.
Protocol_HandlePacket ==
  /\ sysPc["Protocol"] = "HandlePacket"
  /\ Runs("Protocol")
  /\ \E o \in SysOutcomes :
       LET h == HandlePacket(Packet, Globals, o[1], o[2]) IN
          /\ h.call = <<>> => o = <<"ok", TRUE>>
          /\ flashOps + FlashCallsOf(h) <= MaxFlashOps
          /\ TowerProtocolMode' = h.mode
          /\ RTC_TSR' = h.tsr
          /\ flashOps' = flashOps + FlashCallsOf(h)
          /\ flashCall' = IF h.call = <<>> THEN flashCall ELSE h.call[1]
          /\ pending' = [pending EXCEPT !["Protocol"] =
                           IF h.call = <<>> THEN NoFlashCall
                           ELSE [launched |-> h.call[1].launched, phrase |-> h.fl,
                                 hw |-> h.call[1].hw, handled |-> h.result]]
          /\ sysPc' = [sysPc EXCEPT !["Protocol"] =
                         IF h.call = <<>> THEN "Packet_Get"
                         ELSE IF h.call[1].launched = <<>> THEN "SendAcknowledgeIfRequired"
                         ELSE "EraseSector"]
  /\ UNCHANGED <<availableBytes, variable, allocated, flash, flashFault>>
  /\ UNCHANGED <<NvTowerNb, NvTowerMode, dispatch, startup, flashAtReset>>
  /\ UNCHANGED <<sem, lowIsHigh, toggleCallback, ftmArmed, arrayForCloning,
                 analogValue, isrOps, irqCount, medianArg, medianOut>>
  /\ UNCHANGED <<fifoVars, packetVars, putVars, periphVars>>

\* Where a thread goes when its Flash call returned.
AfterFlash(t) == IF t = "Protocol" THEN "SendAcknowledgeIfRequired" ELSE LoopStart(t)

\* EraseSector: the erase command is launched and completes.
Thread_EraseSector(t) ==
  /\ sysPc[t] = "EraseSector"
  /\ Runs(t)
  /\ flash' = IF pending[t].hw = "eraseError" THEN flash ELSE ErasedPhrase
  /\ sysPc' = [sysPc EXCEPT ![t] = IF Len(pending[t].launched) = 2
                                   THEN "WritePhrase" ELSE AfterFlash(t)]
  /\ UNCHANGED <<availableBytes, variable, allocated, flashFault, flashOps, flashCall>>
  /\ UNCHANGED <<sem, pending, lowIsHigh, toggleCallback, ftmArmed, arrayForCloning,
                 analogValue, isrOps, irqCount, medianArg, medianOut>>
  /\ UNCHANGED <<fifoVars, packetVars, putVars, mainVars, periphVars>>

\* WritePhrase: the program command is launched and completes.
Thread_WritePhrase(t) ==
  /\ sysPc[t] = "WritePhrase"
  /\ Runs(t)
  /\ flash' = IF pending[t].hw = "programError" THEN flash ELSE pending[t].phrase
  /\ sysPc' = [sysPc EXCEPT ![t] = AfterFlash(t)]
  /\ UNCHANGED <<availableBytes, variable, allocated, flashFault, flashOps, flashCall>>
  /\ UNCHANGED <<sem, pending, lowIsHigh, toggleCallback, ftmArmed, arrayForCloning,
                 analogValue, isrOps, irqCount, medianArg, medianOut>>
  /\ UNCHANGED <<fifoVars, packetVars, putVars, mainVars, periphVars>>

\* SendAcknowledgeIfRequired(correctlyHandled) after a handler that wrote
\* the flash.
Protocol_SendAcknowledgeIfRequired ==
  /\ sysPc["Protocol"] = "SendAcknowledgeIfRequired"
  /\ Runs("Protocol")
  /\ pending' = [pending EXCEPT !["Protocol"] = NoFlashCall]
  /\ sysPc' = [sysPc EXCEPT !["Protocol"] = "Packet_Get"]
  /\ UNCHANGED <<sem, lowIsHigh, toggleCallback, ftmArmed, arrayForCloning,
                 analogValue, isrOps, irqCount, medianArg, medianOut>>
  /\ UNCHANGED <<fifoVars, packetVars, putVars, flashVars, mainVars, periphVars>>

\* What PITCallback does in the interrupt handler, given the value of
\* ++toggleCallback.
PITCallback(count) ==
  {"Analog_Get", "OS_SemaphoreSignal"}
    \cup (IF count = TOGGLE_COUNT THEN {"LEDs_Toggle"} ELSE {})

\* PIT_ISR of Lab 5 calls PITCallback: both channels are sampled and both
\* analog threads signalled.
PIT_ISR ==
  /\ Started
  /\ irqCount < MaxInterrupts
  /\ irqCount' = irqCount + 1
  /\ sem' = [s \in Semaphores |-> IF s \in AnalogThreads THEN sem[s] + 1 ELSE sem[s]]
  /\ toggleCallback' = IF toggleCallback + 1 = TOGGLE_COUNT THEN 0 ELSE toggleCallback + 1
  /\ isrOps' = [isr |-> "PIT_ISR", ops |-> PITCallback(toggleCallback + 1)]
  /\ UNCHANGED <<sysPc, pending, lowIsHigh, ftmArmed, arrayForCloning,
                 analogValue, medianArg, medianOut>>
  /\ UNCHANGED <<fifoVars, packetVars, putVars, flashVars, mainVars, periphVars>>

\* RTC_ISR of Lab 5 signals RTCSemaphore every second.
RTC_ISR ==
  /\ Started
  /\ irqCount < MaxInterrupts
  /\ irqCount' = irqCount + 1
  /\ sem' = [sem EXCEPT !["RTCSemaphore"] = @ + 1]
  /\ isrOps' = [isr |-> "RTC_ISR", ops |-> {"OS_SemaphoreSignal"}]
  /\ UNCHANGED <<sysPc, pending, lowIsHigh, toggleCallback, ftmArmed, arrayForCloning,
                 analogValue, medianArg, medianOut>>
  /\ UNCHANGED <<fifoVars, packetVars, putVars, flashVars, mainVars, periphVars>>

\* FTM0_ISR of Lab 5: the channel's compare matched; its semaphore is
\* signalled and the channel detached from the timer.
FTM0_ISR ==
  /\ Started
  /\ ftmArmed
  /\ irqCount < MaxInterrupts
  /\ irqCount' = irqCount + 1
  /\ sem' = [sem EXCEPT !["LedTimerChannel"] = @ + 1]
  /\ ftmArmed' = FALSE
  /\ isrOps' = [isr |-> "FTM0_ISR", ops |-> {"OS_SemaphoreSignal"}]
  /\ UNCHANGED <<sysPc, pending, lowIsHigh, toggleCallback, arrayForCloning,
                 analogValue, medianArg, medianOut>>
  /\ UNCHANGED <<fifoVars, packetVars, putVars, flashVars, mainVars, periphVars>>

\* The receive interrupt of the UART delivered the last byte of a packet
\* of the PC to the receive FIFO.
UART_ISR ==
  /\ Started
  /\ irqCount < MaxInterrupts
  /\ irqCount' = irqCount + 1
  /\ sem' = [sem EXCEPT !["RxFIFO"] = @ + 1]
  /\ UNCHANGED <<sysPc, pending, lowIsHigh, toggleCallback, ftmArmed, arrayForCloning,
                 analogValue, isrOps, medianArg, medianOut>>
  /\ UNCHANGED <<fifoVars, packetVars, putVars, flashVars, mainVars, periphVars>>

\* The callbacks main.c of Lab 3 registers; the interrupt handlers of the
\* RTC, the PIT and the FTM call them.
Lab3_RTCCallback == {"LEDs_Toggle", "RTC_Get", "Packet_Put"}

Lab3_PITCallback == {"LEDs_Toggle"}

Lab3_FTMCallback == {"LEDs_Off"}

\* RTC_ISR of Lab 3 calls RTCCallback.
Lab3_RTC_ISR ==
  /\ cfg = "Lab3"
  /\ irqCount < MaxInterrupts
  /\ irqCount' = irqCount + 1
  /\ isrOps' = [isr |-> "Lab3 RTC_ISR", ops |-> Lab3_RTCCallback]
  /\ UNCHANGED <<sysPc, sem, pending, lowIsHigh, toggleCallback, ftmArmed,
                 arrayForCloning, analogValue, medianArg, medianOut>>
  /\ UNCHANGED <<fifoVars, packetVars, putVars, flashVars, mainVars, periphVars>>

\* PIT_ISR of Lab 3 calls PITCallback.
Lab3_PIT_ISR ==
  /\ cfg = "Lab3"
  /\ irqCount < MaxInterrupts
  /\ irqCount' = irqCount + 1
  /\ isrOps' = [isr |-> "Lab3 PIT_ISR", ops |-> Lab3_PITCallback]
  /\ UNCHANGED <<sysPc, sem, pending, lowIsHigh, toggleCallback, ftmArmed,
                 arrayForCloning, analogValue, medianArg, medianOut>>
  /\ UNCHANGED <<fifoVars, packetVars, putVars, flashVars, mainVars, periphVars>>

\* FTM0_ISR of Lab 3 calls the callback of the channel, FTMCallback.
Lab3_FTM0_ISR ==
  /\ cfg = "Lab3"
  /\ irqCount < MaxInterrupts
  /\ irqCount' = irqCount + 1
  /\ isrOps' = [isr |-> "Lab3 FTM0_ISR", ops |-> Lab3_FTMCallback]
  /\ UNCHANGED <<sysPc, sem, pending, lowIsHigh, toggleCallback, ftmArmed,
                 arrayForCloning, analogValue, medianArg, medianOut>>
  /\ UNCHANGED <<fifoVars, packetVars, putVars, flashVars, mainVars, periphVars>>

(***************************************************************************)
(* The peripheral drivers and the non-blocking decoder of Lab 4            *)
(***************************************************************************)

\* The receive side of Lab 4: nothing was reported yet.
Lab4PacketInit == packets = <<>>

\* The loop of Packet_Get of Lab 4 from a window buf[0..n-1], with the bytes
\* rx in the receive FIFO: it ends when ReadNextByte finds the FIFO empty
\* (false) or when the window of 5 bytes has a valid checksum (true).
RECURSIVE Lab4_GetLoop(_, _, _, _)
Lab4_GetLoop(buf, n, rx, shifts) ==
  IF rx = <<>>
  THEN [buf |-> buf, n |-> n, rx |-> rx, result |-> FALSE, shifts |-> shifts,
        packet |-> [Command |-> 0, Parameter1 |-> 0, Parameter2 |-> 0, Parameter3 |-> 0]]
  ELSE LET r == ReadNextByte(buf, n, Head(rx)) IN
         IF r.n >= PACKET_SIZE
         THEN IF IsChecksumValid(r.buf)
              THEN LET v == SetValuesAndResetBuffer(r.buf) IN
                     [buf |-> r.buf, n |-> v.n, rx |-> Tail(rx), result |-> TRUE,
                      shifts |-> shifts, packet |-> v.packet]
              ELSE LET t == ShiftBuffer(r.buf, r.n) IN
                     Lab4_GetLoop(t.buf, t.n, Tail(rx), shifts + 1)
         ELSE Lab4_GetLoop(r.buf, r.n, Tail(rx), shifts)

\* Packet_Get that empties its window when it is called.
Lab4_Packet_Get_ResetsWindow(buf, n, rx) == Lab4_GetLoop(buf, 0, rx, 0)

\* Packet_Get of Lab 4: PacketBuf and BufNbBytes are statics, so a call
\* goes on from the window the call before left.
Lab4_Packet_Get(buf, n, rx) == Lab4_GetLoop(buf, n, rx, 0)

\* The main loop of Lab 4 calls Packet_Get.
Lab4_Packet_Get_Call ==
  /\ LET g == Lab4_Packet_Get(PacketBuf, BufNbBytes, rxStream) IN
       /\ PacketBuf' = g.buf
       /\ BufNbBytes' = g.n
       /\ rxStream' = g.rx
       /\ reported' = g.result
       /\ Packet' = IF g.result THEN g.packet ELSE Packet
       /\ packets' = IF g.result THEN Append(packets, g.packet) ELSE packets
       /\ emitted' = IF g.result THEN emitted + 1 ELSE emitted
       /\ discards' = discards + g.shifts
       /\ consumed' = consumed + (Len(rxStream) - Len(g.rx))
  /\ lastOp' = "Packet_Get"
  /\ UNCHANGED <<sent, recent>>
  /\ UNCHANGED <<cfg, SR_lock, FIFO, pcPut, putArg, pcGet, dataOut, result, calls, halted, putLog, getLog>>
  /\ UNCHANGED <<putVars, flashVars, mainVars, sysVars>>
  /\ UNCHANGED <<FTFE_FSTAT, launched, timeSent, Analog_Input, analogSent,
                 UART, FTM0_CnSC, userCallbacks, ftmIsr>>

\* The serial line delivers a byte, which the UART puts in the receive FIFO
\* (there is room for it).
Lab4_UART_Receive(b) ==
  /\ Len(sent) < MaxArrivals
  /\ Len(rxStream) < FIFO_SIZE
  /\ rxStream' = Append(rxStream, b)
  /\ sent' = Append(sent, b)
  /\ UNCHANGED <<PacketBuf, BufNbBytes, Packet, consumed, emitted, discards, reported, recent>>
  /\ UNCHANGED nonPacketVars

\* The error flags of FTFE_FSTAT that LaunchCommand tests:
\* FTFE_FSTAT_FPVIOL_MASK | FTFE_FSTAT_ACCERR_MASK.
errorMask == {"FPVIOL", "ACCERR"}

\* A write to FTFE_FSTAT: its flags are cleared by writing 1 to them, so
\* the flags of the value written are the ones that get cleared.
WriteFSTAT(fstat, value) == fstat \ value

\* LaunchCommand that returns false without clearing the error flags.
LaunchCommand_NoClear(fstat, raised) ==
  LET started == WriteFSTAT(fstat, {"CCIF"})
      completed == started \cup raised \cup {"CCIF"}
  IN IF completed \cap errorMask # {}
     THEN [fstat |-> completed, atCompletion |-> completed, result |-> FALSE]
     ELSE [fstat |-> completed, atCompletion |-> completed, result |-> TRUE]

\* LaunchCommand: CCIF is cleared to launch the command, the hardware sets
\* it again when the command completes, having raised the flags of raised;
\* if FPVIOL or ACCERR is set then, both are cleared and false is returned.
LaunchCommand(fstat, raised) ==
  LET started == WriteFSTAT(fstat, {"CCIF"})
      completed == started \cup raised \cup {"CCIF"}
  IN IF completed \cap errorMask # {}
     THEN [fstat |-> WriteFSTAT(completed, errorMask), atCompletion |-> completed,
           result |-> FALSE]
     ELSE [fstat |-> completed, atCompletion |-> completed, result |-> TRUE]

\* The flash controller after reset: no command runs, no error flag is set.
LaunchInit ==
  /\ FTFE_FSTAT = {"CCIF"}
  /\ launched = <<>>

\* The phrases ModifySector programs.
LaunchPhrases == {StoredPhrase, [i \in 0..7 |-> 0]}

\* EraseSector(address): the erase command is launched; the sector is
\* erased unless the hardware raised an error flag.
EraseSector_Call(raised) ==
  /\ Len(launched) < MaxLaunches
  /\ LET r == LaunchCommand(FTFE_FSTAT, raised) IN
       /\ FTFE_FSTAT' = r.fstat
       /\ flash' = IF raised = {} THEN ErasedPhrase ELSE flash
       /\ launched' = Append(launched, [command |-> ERASE_SECTOR, raised |-> raised,
                                        atCompletion |-> r.atCompletion,
                                        result |-> r.result])
  /\ UNCHANGED <<availableBytes, variable, allocated, flashCall, flashOps, flashFault>>
  /\ UNCHANGED <<fifoVars, packetVars, putVars, mainVars, sysVars>>
  /\ UNCHANGED <<packets, timeSent, Analog_Input, analogSent, UART, FTM0_CnSC,
                 userCallbacks, ftmIsr>>

\* WritePhrase(address, phrase), which ModifySector calls when EraseSector
\* returned true: the program command is launched.
WritePhrase_Call(phrase, raised) ==
  /\ Len(launched) < MaxLaunches
  /\ launched # <<>>
  /\ launched[Len(launched)].command = ERASE_SECTOR
  /\ launched[Len(launched)].result
  /\ LET r == LaunchCommand(FTFE_FSTAT, raised) IN
       /\ FTFE_FSTAT' = r.fstat
       /\ flash' = IF raised = {} THEN phrase ELSE flash
       /\ launched' = Append(launched, [command |-> PROGRAM_PHRASE, raised |-> raised,
                                        atCompletion |-> r.atCompletion,
                                        result |-> r.result])
  /\ UNCHANGED <<availableBytes, variable, allocated, flashCall, flashOps, flashFault>>
  /\ UNCHANGED <<fifoVars, packetVars, putVars, mainVars, sysVars>>
  /\ UNCHANGED <<packets, timeSent, Analog_Input, analogSent, UART, FTM0_CnSC,
                 userCallbacks, ftmIsr>>

\* The Time packets the PC sends, valid and not.
TimePackets ==
  {[Command |-> TIME, Parameter1 |-> t[1], Parameter2 |-> t[2], Parameter3 |-> t[3]] :
     t \in {<<0, 0, 0>>, <<0, 59, 59>>, <<23, 59, 59>>, <<23, 0, 59>>,
            <<24, 0, 0>>, <<0, 60, 0>>, <<0, 0, 60>>}}

\* The protocol thread handles a Time packet of the PC: HandleSetTime.
Time_HandleSetTime(p) ==
  /\ LET h == HandleSetTime(p, [mode |-> TowerProtocolMode, fl |-> flash, tsr |-> RTC_TSR,
                               nb |-> NvTowerNb, md |-> NvTowerMode]) IN
       /\ RTC_TSR' = h.tsr
       /\ dispatch' = [dispatch EXCEPT !.handled = h.result, !.responses = h.puts,
                                       !.ack = SendAcknowledgeIfRequired(p, h.result)]
  /\ Packet' = p
  /\ UNCHANGED <<TowerProtocolMode, NvTowerNb, NvTowerMode, startup, flashAtReset>>
  /\ UNCHANGED <<PacketBuf, BufNbBytes, rxStream, consumed, emitted, discards, reported, sent, recent>>
  /\ UNCHANGED <<fifoVars, putVars, flashVars, sysVars, periphVars>>

\* A second passes: the free-running counter of the RTC advances and the
\* time seconds interrupt is raised.
RTC_Second ==
  /\ irqCount < MaxInterrupts
  /\ irqCount' = irqCount + 1
  /\ RTC_TSR' = RTC_TSR + 1
  /\ UNCHANGED <<TowerProtocolMode, NvTowerNb, NvTowerMode, dispatch, startup, flashAtReset>>
  /\ UNCHANGED <<sysPc, sem, pending, lowIsHigh, toggleCallback, ftmArmed, arrayForCloning,
                 analogValue, isrOps, medianArg, medianOut>>
  /\ UNCHANGED <<fifoVars, packetVars, putVars, flashVars, periphVars>>

\* RTCTimerThread: SendTime() reads the clock and sends the Time packet.
RTC_SendTime ==
  /\ timeSent' = <<SendTime(RTC_TSR)>>
  /\ UNCHANGED <<packets, FTFE_FSTAT, launched, Analog_Input, analogSent, UART, FTM0_CnSC,
                 userCallbacks, ftmIsr>>
  /\ UNCHANGED <<fifoVars, packetVars, putVars, flashVars, mainVars, sysVars>>

\* ANALOG_NB_INPUTS of analog.h: the channels the tower samples.
AnalogChannels == {0, 1}

\* #ifdef TRANSMIT_ASYNC_PACKETS: main.c has the #define commented out.
TRANSMIT_ASYNC_PACKETS == FALSE

\* The static Analog_Input array after Analog_Init: the windows hold
\* zeroes and putPtr points to values[0].
AnalogInit ==
  /\ Analog_Input = [c \in AnalogChannels |->
                       [value |-> 0, oldValue |-> 0,
                        values |-> [i \in 1..ANALOG_WINDOW_SIZE |-> 0], putPtr |-> 0]]
  /\ analogSent = [woke |-> FALSE, channelNb |-> 0, mode |-> ASYNCHRONOUS,
                   oldValue |-> 0, value |-> 0, sent |-> FALSE, packet |-> <<>>]

\* Analog_Get: the sample is stored at putPtr, which advances and wraps at
\* the end of the window.
Analog_Get(input, sample) ==
  [input EXCEPT !.values = [input.values EXCEPT ![input.putPtr + 1] = sample],
                !.putPtr = IF input.putPtr + 1 = ANALOG_WINDOW_SIZE THEN 0
                           ELSE input.putPtr + 1]

\* SendAnalogValue: Packet_Put(ANALOG_INPUT, channelNb, value.s.Lo, value.s.Hi).
SendAnalogValue(channelNb, value) ==
  <<ANALOG_INPUT, channelNb, (value + 65536) % 256, ((value + 65536) \div 256) % 256>>

\* The condition of the if in AnalogProcessingThread, as the preprocessor
\* leaves it.
AnalogSends(mode, oldValue, value) ==
  \/ mode = SYNCHRONOUS
  \/ (TRANSMIT_ASYNC_PACKETS /\ oldValue # value)

\* PITCallback samples a channel: Analog_Get(channelNb).
Analog_Get_Call(channelNb, sample) ==
  /\ irqCount < MaxInterrupts
  /\ irqCount' = irqCount + 1
  /\ Analog_Input' = [Analog_Input EXCEPT ![channelNb] = Analog_Get(@, sample)]
  /\ UNCHANGED <<sysPc, sem, pending, lowIsHigh, toggleCallback, ftmArmed, arrayForCloning,
                 analogValue, isrOps, medianArg, medianOut>>
  /\ UNCHANGED <<packets, FTFE_FSTAT, launched, timeSent, analogSent, UART, FTM0_CnSC,
                 userCallbacks, ftmIsr>>
  /\ UNCHANGED <<fifoVars, packetVars, putVars, flashVars, mainVars>>

\* One turn of the loop of AnalogProcessingThread after WaitForever
\* returned: the old value is kept, the window is filtered and the value is
\* sent or not.
AnalogProcessingThread_Wake(channelNb) ==
  LET input == Analog_Input[channelNb]
      value == Median_Filter(input.values, ANALOG_WINDOW_SIZE)
      sends == AnalogSends(TowerProtocolMode, input.value, value)
  IN /\ Analog_Input' = [Analog_Input EXCEPT ![channelNb].oldValue = input.value,
                                             ![channelNb].value = value]
     /\ analogSent' = [woke |-> TRUE, channelNb |-> channelNb, mode |-> TowerProtocolMode,
                       oldValue |-> input.value, value |-> value, sent |-> sends,
                       packet |-> IF sends THEN SendAnalogValue(channelNb, value) ELSE <<>>]
     /\ UNCHANGED <<packets, FTFE_FSTAT, launched, timeSent, UART, FTM0_CnSC,
                    userCallbacks, ftmIsr>>
     /\ UNCHANGED <<fifoVars, packetVars, putVars, flashVars, mainVars, sysVars>>

\* HandleProtocolMode with Parameter1 = 2: the PC sets the protocol mode.
Analog_SetProtocolMode(mode) ==
  /\ TowerProtocolMode' = mode
  /\ UNCHANGED <<NvTowerNb, NvTowerMode, RTC_TSR, dispatch, startup, flashAtReset>>
  /\ UNCHANGED <<fifoVars, packetVars, putVars, flashVars, sysVars, periphVars>>

\* UART_Init of Lab 2: FIFO_Init on both FIFOs; nothing was sent or
\* received.  The FIFOs of Lab 2 have no semaphores.
Lab2_UART_Init ==
  UART = [TxFIFO |-> FIFO_Init, RxFIFO |-> FIFO_Init,
          outCalls |-> 0, arrivals |-> 0,
          accepted |-> <<>>, written |-> <<>>,
          poll |-> [polled |-> FALSE, RDRF |-> FALSE, TDRE |-> FALSE, dropped |-> FALSE]]

\* UART_Poll that takes the byte from the transmit FIFO before it tests
\* TDRE.
UART_Poll_GetBeforeReady(U, RDRF, TDRE, D) ==
  LET put == IF RDRF THEN Lab1_FIFO_Put(U.RxFIFO, D)
             ELSE [fifo |-> U.RxFIFO, result |-> FALSE]
      get == Lab1_FIFO_Get(U.TxFIFO, 0)
  IN [U EXCEPT !.RxFIFO = put.fifo,
               !.TxFIFO = get.fifo,
               !.arrivals = IF RDRF THEN @ + 1 ELSE @,
               !.written = IF TDRE /\ get.result THEN Append(@, get.out) ELSE @,
               !.poll = [polled |-> TRUE, RDRF |-> RDRF, TDRE |-> TDRE,
                         dropped |-> RDRF /\ ~put.result]]

\* UART_Poll: with RDRF set the data register is put in the receive FIFO;
\* FIFO_Get on the transmit FIFO is on the right of &&, so it is called
\* only with TDRE set, and the byte it returns is written to UART2_D.
UART_Poll(U, RDRF, TDRE, D) ==
  LET put == IF RDRF THEN Lab1_FIFO_Put(U.RxFIFO, D)
             ELSE [fifo |-> U.RxFIFO, result |-> FALSE]
      get == IF TDRE THEN Lab1_FIFO_Get(U.TxFIFO, 0)
             ELSE [fifo |-> U.TxFIFO, out |-> 0, result |-> FALSE]
  IN [U EXCEPT !.RxFIFO = put.fifo,
               !.TxFIFO = get.fifo,
               !.arrivals = IF RDRF THEN @ + 1 ELSE @,
               !.written = IF TDRE /\ get.result THEN Append(@, get.out) ELSE @,
               !.poll = [polled |-> TRUE, RDRF |-> RDRF, TDRE |-> TDRE,
                         dropped |-> RDRF /\ ~put.result]]

\* The peripheral variables but UART.
nonUartVars ==
  <<packets, FTFE_FSTAT, launched, timeSent, Analog_Input, analogSent, FTM0_CnSC,
    userCallbacks, ftmIsr>>

\* The main loop calls UART_Poll; the status flags and the byte on the line
\* are what the hardware shows at that moment.  The bytes of the line are
\* numbered, so that they are all different.
Lab2_UART_Poll(RDRF, TDRE) ==
  /\ RDRF => UART.arrivals < MaxArrivals
  /\ UART' = UART_Poll(UART, RDRF, TDRE, (UART.arrivals + 1) % 256)
  /\ UNCHANGED <<fifoVars, packetVars, putVars, flashVars, mainVars, sysVars, nonUartVars>>

\* Packet_Put calls UART_OutChar: FIFO_Put on the transmit FIFO.  The bytes
\* are numbered by call.
Lab2_UART_OutChar ==
  /\ UART.outCalls < MaxPuts
  /\ LET data == (UART.outCalls + 1) % 256
         put == Lab1_FIFO_Put(UART.TxFIFO, data)
     IN UART' = [UART EXCEPT !.TxFIFO = put.fifo,
                             !.outCalls = @ + 1,
                             !.accepted = IF put.result THEN Append(@, data) ELSE @,
                             !.poll.polled = FALSE]
  /\ UNCHANGED <<fifoVars, packetVars, putVars, flashVars, mainVars, sysVars, nonUartVars>>

\* Packet_Get calls UART_InChar: FIFO_Get on the receive FIFO.
Lab2_UART_InChar ==
  /\ UART' = [UART EXCEPT !.RxFIFO = Lab1_FIFO_Get(@, 0).fifo, !.poll.polled = FALSE]
  /\ UNCHANGED <<fifoVars, packetVars, putVars, flashVars, mainVars, sysVars, nonUartVars>>

\* The channels of FTM0: the loop of FTM0_ISR visits channels 0 to 7.
FtmChannels == 0..7

\* The channels the program sets up are 0 to MaxChannel; the others stay in
\* their reset state.
UsedChannels == 0..MaxChannel

\* The semaphore a caller of FTM_Set creates for a channel: a pointer that
\* is not NULL, different for each channel.
ChannelSemaphore(ch) == <<1, ch>>

\* After FTM_Init: the channel registers are clear and the static
\* userCallbacks array holds NULL pointers.
FTM_Init ==
  /\ FTM0_CnSC = [i \in FtmChannels |-> {}]
  /\ userCallbacks = [i \in FtmChannels |-> NULL]
  /\ ftmIsr = [ran |-> FALSE, before |-> [i \in FtmChannels |-> {}], events |-> <<>>]

\* FTM_Set: false for a channel above 7; otherwise the semaphore is stored,
\* the ELS and MS bits are ORed in, CHF is cleared and CHIE is set.
FTM_Set(cnsc, callbacks, channelNb, semaphore, els, ms) ==
  IF channelNb > 7
  THEN [cnsc |-> cnsc, callbacks |-> callbacks, result |-> FALSE]
  ELSE [cnsc |-> [cnsc EXCEPT ![channelNb] = ((@ \cup els \cup ms) \ {"CHF"}) \cup {"CHIE"}],
        callbacks |-> [callbacks EXCEPT ![channelNb] = semaphore],
        result |-> TRUE]

\* The body of the loop of FTM0_ISR without the break.
FTM0_ISR_Channel_NoBreak(i, cnsc, callbacks) ==
  IF "CHIE" \in cnsc[i] /\ "CHF" \in cnsc[i]
  THEN IF callbacks[i] # NULL
       THEN [cnsc |-> [cnsc EXCEPT ![i] = @ \ {"CHF", "ELSA", "ELSB"}],
             events |-> <<<<"clear", i, NULL>>, <<"signal", i, callbacks[i]>>>>,
             break |-> FALSE]
       ELSE [cnsc |-> [cnsc EXCEPT ![i] = @ \ {"CHF"}],
             events |-> <<<<"clear", i, NULL>>>>,
             break |-> FALSE]
  ELSE [cnsc |-> cnsc, events |-> <<>>, break |-> FALSE]

\* The body of the loop of FTM0_ISR for channel i: with CHIE and CHF set
\* the flag is cleared; with a semaphore registered it is signalled, the
\* ELS bits are cleared and the loop ends.
FTM0_ISR_Channel(i, cnsc, callbacks) ==
  IF "CHIE" \in cnsc[i] /\ "CHF" \in cnsc[i]
  THEN IF callbacks[i] # NULL
       THEN [cnsc |-> [cnsc EXCEPT ![i] = @ \ {"CHF", "ELSA", "ELSB"}],
             events |-> <<<<"clear", i, NULL>>, <<"signal", i, callbacks[i]>>>>,
             break |-> TRUE]
       ELSE [cnsc |-> [cnsc EXCEPT ![i] = @ \ {"CHF"}],
             events |-> <<<<"clear", i, NULL>>>>,
             break |-> FALSE]
  ELSE [cnsc |-> cnsc, events |-> <<>>, break |-> FALSE]

\* for (i = 0; i < 8; i++) of FTM0_ISR, from channel i on.
RECURSIVE FTM0_ISR_Loop(_, _, _, _)
FTM0_ISR_Loop(i, cnsc, callbacks, events) ==
  IF i >= 8 THEN [cnsc |-> cnsc, events |-> events]
  ELSE LET c == FTM0_ISR_Channel(i, cnsc, callbacks) IN
         IF c.break THEN [cnsc |-> c.cnsc, events |-> events \o c.events]
         ELSE FTM0_ISR_Loop(i + 1, c.cnsc, callbacks, events \o c.events)

\* The peripheral variables but those of the FTM.
nonFtmVars ==
  <<packets, FTFE_FSTAT, launched, timeSent, Analog_Input, analogSent, UART>>

\* No FTM0_ISR has run since the registers were last written.
FtmIsrIdle == [ran |-> FALSE, before |-> [i \in FtmChannels |-> {}], events |-> <<>>]

\* A call of FTM_Set for an output compare channel that drives its pin
\* high, with a semaphore or with NULL.
FTM_Set_Call(channelNb, semaphore) ==
  /\ LET set == FTM_Set(FTM0_CnSC, userCallbacks, channelNb, semaphore,
                        {"ELSA", "ELSB"}, {"MSA"})
     IN /\ FTM0_CnSC' = set.cnsc
        /\ userCallbacks' = set.callbacks
  /\ ftmIsr' = FtmIsrIdle
  /\ UNCHANGED <<fifoVars, packetVars, putVars, flashVars, mainVars, sysVars, nonFtmVars>>

\* The counter reaches the compare value of a channel that was set up: the
\* hardware sets CHF.
FTM_ChannelEvent(channelNb) ==
  /\ "MSA" \in FTM0_CnSC[channelNb]
  /\ "CHF" \notin FTM0_CnSC[channelNb]
  /\ FTM0_CnSC' = [FTM0_CnSC EXCEPT ![channelNb] = @ \cup {"CHF"}]
  /\ ftmIsr' = FtmIsrIdle
  /\ UNCHANGED userCallbacks
  /\ UNCHANGED <<fifoVars, packetVars, putVars, flashVars, mainVars, sysVars, nonFtmVars>>

\* One invocation of FTM0_ISR, raised by a channel with CHIE and CHF set.
FTM0_ISR_Call ==
  /\ \E i \in FtmChannels : "CHIE" \in FTM0_CnSC[i] /\ "CHF" \in FTM0_CnSC[i]
  /\ LET isr == FTM0_ISR_Loop(0, FTM0_CnSC, userCallbacks, <<>>) IN
       /\ FTM0_CnSC' = isr.cnsc
       /\ ftmIsr' = [ran |-> TRUE, before |-> FTM0_CnSC, events |-> isr.events]
  /\ UNCHANGED userCallbacks
  /\ UNCHANGED <<fifoVars, packetVars, putVars, flashVars, mainVars, sysVars, nonFtmVars>>

\* main has not started the peripherals.
PeriphInit ==
  /\ Lab4PacketInit
  /\ LaunchInit
  /\ timeSent = <<>>
  /\ AnalogInit
  /\ Lab2_UART_Init
  /\ FTM_Init

(***************************************************************************)
(* Specifications                                                          *)
(***************************************************************************)
FifoInit(configs) ==
  /\ cfg \in configs
  /\ FIFO = FIFO_Init
  /\ SR_lock = 0
  /\ pcPut = "idle"
  /\ putArg = 0
  /\ pcGet = "idle"
  /\ dataOut \in Data
  /\ lastOp = "none"
  /\ result = FALSE
  /\ calls = 0
  /\ halted = FALSE
  /\ putLog = <<>>
  /\ getLog = <<>>

\* The FIFO part while only the packet module is exercised.
FifoIdle ==
  /\ cfg = "Packet"
  /\ FIFO = FIFO_Init
  /\ SR_lock = 0
  /\ pcPut = "idle"
  /\ putArg = 0
  /\ pcGet = "idle"
  /\ dataOut = 0
  /\ lastOp = "none"
  /\ result = FALSE
  /\ calls = 0
  /\ halted = FALSE
  /\ putLog = <<>>
  /\ getLog = <<>>

\* Any sequence of FIFO_Put and FIFO_Get calls on one FIFO, Lab 1 or Lab 5.
InitFifo == FifoInit({"Lab1", "Lab5"}) /\ PacketInit /\ PacketPutInit /\ FlashInit /\ MainInit /\ SystemInit /\ PeriphInit

NextFifo ==
  \/ \E d \in Data : Put(d)
  \/ Get
  \/ \E d \in Data : Lab1_Put(d)
  \/ Lab1_Get

SpecFifo == InitFifo /\ [][NextFifo]_vars

\* Any sequence of the four FIFO calls of Lab 5 on one FIFO.
InitFifoAll == FifoInit({"Lab5"}) /\ PacketInit /\ PacketPutInit /\ FlashInit /\ MainInit /\ SystemInit /\ PeriphInit

NextFifoAll ==
  \/ \E d \in Data : Put(d)
  \/ Get
  \/ \E d \in Data : BlockingPut_Call(d)
  \/ BlockingPut_Wait
  \/ BlockingPut_Put
  \/ BlockingGet_Call
  \/ BlockingGet_Wait
  \/ BlockingGet_Get

SpecFifoAll == InitFifoAll /\ [][NextFifoAll]_vars

\* The two uses of a FIFO by the UART: the receive FIFO (ISR puts, thread
\* gets blocking) and the transmit FIFO (thread puts blocking, ISR gets).
\* The ISR runs to completion between two steps of the thread.
InitUart == FifoInit({"Rx", "Tx"}) /\ PacketInit /\ PacketPutInit /\ FlashInit /\ MainInit /\ SystemInit /\ PeriphInit

NextUart ==
  \/ \E d \in Data : Put(d)
  \/ Get
  \/ \E d \in Data : BlockingPut_Call(d)
  \/ BlockingPut_Wait
  \/ BlockingPut_Put
  \/ BlockingGet_Call
  \/ BlockingGet_Wait
  \/ BlockingGet_Get

SpecUart == InitUart /\ [][NextUart]_vars

\* One producer thread in FIFO_BlockingPut and one consumer thread in
\* FIFO_BlockingGet; the scheduler lets every thread that can run run.
InitThreads == FifoInit({"Threads"}) /\ PacketInit /\ PacketPutInit /\ FlashInit /\ MainInit /\ SystemInit /\ PeriphInit

NextThreads ==
  \/ \E d \in Data : BlockingPut_Call(d)
  \/ BlockingPut_Wait
  \/ BlockingPut_Put
  \/ BlockingGet_Call
  \/ BlockingGet_Wait
  \/ BlockingGet_Get

FairThreads ==
  /\ WF_vars(\E d \in Data : BlockingPut_Call(d))
  /\ WF_vars(BlockingPut_Wait)
  /\ WF_vars(BlockingPut_Put)
  /\ WF_vars(BlockingGet_Call)
  /\ WF_vars(BlockingGet_Wait)
  /\ WF_vars(BlockingGet_Get)

SpecThreads == InitThreads /\ [][NextThreads]_vars /\ FairThreads

\* Round trip: packets are encoded by Packet_Put and their bytes are fed to
\* Packet_Get, one packet after the other.
InitRoundTrip == FifoIdle /\ PacketInit /\ PacketPutInit /\ FlashInit /\ MainInit /\ SystemInit /\ PeriphInit

NextRoundTrip ==
  \/ \E c \in Byte, p1 \in Byte, p2 \in Byte, p3 \in Byte : SendPacket(c, p1, p2, p3)
  \/ Packet_Get_Step

SpecRoundTrip == InitRoundTrip /\ [][NextRoundTrip]_vars

\* A corrupted frame followed by a valid frame is fed to Packet_Get.
InitCorrupt ==
  /\ FifoIdle
  /\ PacketBuf = [i \in 0..(PACKET_SIZE - 1) |-> 0]
  /\ BufNbBytes = 0
  /\ Packet = [Command |-> 0, Parameter1 |-> 0, Parameter2 |-> 0, Parameter3 |-> 0]
  /\ CorruptedThenValid(rxStream)
  /\ sent = rxStream
  /\ consumed = 0
  /\ emitted = 0
  /\ discards = 0
  /\ reported = FALSE
  /\ recent = <<>>
  /\ PacketPutInit /\ FlashInit /\ MainInit /\ SystemInit /\ PeriphInit

NextCorrupt == Packet_Get_Step

SpecCorrupt == InitCorrupt /\ [][NextCorrupt]_vars

\* s is 1 to 4 stray bytes followed by a valid frame.
StrayThenValid(s) ==
  \E k \in 1..(PACKET_SIZE - 1), f \in Frames :
    \E stray \in [1..k -> Byte] : s = stray \o f

\* Stray bytes followed by a valid frame are fed to Packet_Get, whose window
\* is empty.
InitRealign ==
  /\ FifoIdle
  /\ PacketBuf = [i \in 0..(PACKET_SIZE - 1) |-> 0]
  /\ BufNbBytes = 0
  /\ Packet = [Command |-> 0, Parameter1 |-> 0, Parameter2 |-> 0, Parameter3 |-> 0]
  /\ StrayThenValid(rxStream)
  /\ sent = rxStream
  /\ consumed = 0
  /\ emitted = 0
  /\ discards = 0
  /\ reported = FALSE
  /\ recent = <<>>
  /\ PacketPutInit /\ FlashInit /\ MainInit /\ SystemInit /\ PeriphInit

NextRealign == Packet_Get_Step

SpecRealign == InitRealign /\ [][NextRealign]_vars

\* Any stream of bytes is fed to Packet_Get.
InitPacket == FifoIdle /\ PacketInit /\ PacketPutInit /\ FlashInit /\ MainInit /\ SystemInit /\ PeriphInit

NextPacket ==
  \/ \E b \in Byte : UART_Receive(b)
  \/ Packet_Get_Step

SpecPacket == InitPacket /\ [][NextPacket]_vars

\* Packet_Put called by the main loop (Lab 4) or by one thread (Lab 5)
\* with any arguments, while the UART drains the transmit FIFO.
InitPut == FifoInit({"PutLab4", "PutLab5"}) /\ PacketInit /\ PacketPutInit /\ FlashInit /\ MainInit /\ SystemInit /\ PeriphInit

NextPut ==
  \/ \E a \in PutArgs : PacketPut_Call("Protocol", a[1], a[2], a[3], a[4])
  \/ PacketPut_Wait("Protocol")
  \/ PacketPut_OutChar("Protocol")
  \/ PacketPut_Signal("Protocol")
  \/ \E a \in PutArgs : Lab4_Packet_Put(a[1], a[2], a[3], a[4])
  \/ UART_Transmit

SpecPut == InitPut /\ [][NextPut]_vars

\* The threads of Lab 5 call Packet_Put under preemptive scheduling, while
\* the UART drains the transmit FIFO.
InitPutThreads == FifoInit({"PutLab5"}) /\ PacketInit /\ PacketPutInit /\ FlashInit /\ MainInit /\ SystemInit /\ PeriphInit

NextPutThreads ==
  \/ \E t \in Threads : \E a \in ThreadArgs(t) : PacketPut_Call(t, a[1], a[2], a[3], a[4])
  \/ \E t \in Threads : PacketPut_Wait(t)
  \/ \E t \in Threads : PacketPut_OutChar(t)
  \/ \E t \in Threads : PacketPut_Signal(t)
  \/ UART_Transmit

SpecPutThreads == InitPutThreads /\ [][NextPutThreads]_vars

\* Nothing was allocated or written; the phrase is erased or holds what an
\* earlier run programmed.
FlashReset ==
  /\ availableBytes = 0
  /\ variable = NULL
  /\ allocated = {}
  /\ flash \in {ErasedPhrase, StoredPhrase}
  /\ flashCall = [op |-> "none", address |-> NULL, size |-> 0, data |-> 0, hw |-> "ok",
                  launched |-> <<>>, writeN |-> FALSE, result |-> FALSE]
  /\ flashOps = 0
  /\ flashFault = FALSE

\* Any sequence of Flash_AllocateVar calls.
InitAlloc == FifoIdle /\ PacketInit /\ PacketPutInit /\ FlashInit /\ MainInit /\ SystemInit /\ PeriphInit

NextAlloc == \E size \in Sizes : AllocateVar(size)

SpecAlloc == InitAlloc /\ [][NextAlloc]_vars

\* Addresses the callers pass to Flash_Write8, Flash_Write16 and
\* Flash_Write32: the variable allocated last and the byte below the phrase.
CallerAddresses == {variable, <<7, Half - 1>>}

\* Variables are allocated, written through Flash_Write8, Flash_Write16
\* and Flash_Write32, and the sector is erased, in any order.
InitFlash == FifoIdle /\ PacketInit /\ PacketPutInit /\ FlashReset /\ MainInit /\ SystemInit /\ PeriphInit

NextFlash ==
  \/ \E size \in {1, 2, 4} : AllocateVar(size)
  \/ \E address \in CallerAddresses, d \in Data : Write8(address, TestValue(d, 1))
  \/ \E address \in CallerAddresses, d \in Data : Write16(address, TestValue(d, 2))
  \/ \E address \in CallerAddresses, d \in Data : Write32(address, TestValue(d, 4))
  \/ Erase

SpecFlash == InitFlash /\ [][NextFlash]_vars

\* Flash_WriteN is called with any address, data and size.
InitWriteN == FifoIdle /\ PacketInit /\ PacketPutInit /\ FlashReset /\ MainInit /\ SystemInit /\ PeriphInit

NextWriteN ==
  \E address \in WriteAddresses, d \in Data, size \in Sizes :
    WriteN(address, TestValue(d, size), size)

SpecWriteN == InitWriteN /\ [][NextWriteN]_vars

\* Variables are allocated and the sector is erased, in any order.
InitErase == FifoIdle /\ PacketInit /\ PacketPutInit /\ FlashReset /\ MainInit /\ SystemInit /\ PeriphInit

NextErase ==
  \/ \E size \in {1, 2, 4} : AllocateVar(size)
  \/ Erase

SpecErase == InitErase /\ [][NextErase]_vars

\* Any contents of the phrase at reset: each byte erased or programmed.
AnyPhrase == [0..7 -> {255, 16}]

\* main up to OS_Start: the two AllocateAndSet calls, over any phrase and
\* with any outcome of the flash commands.
InitStartup ==
  /\ FifoIdle /\ PacketInit /\ PacketPutInit
  /\ availableBytes = 0
  /\ variable = NULL
  /\ allocated = {}
  /\ flash \in AnyPhrase
  /\ flashCall = [op |-> "none", address |-> NULL, size |-> 0, data |-> 0, hw |-> "ok",
                  launched |-> <<>>, writeN |-> FALSE, result |-> FALSE]
  /\ flashOps = 0
  /\ flashFault = FALSE
  /\ MainInit /\ SystemInit /\ PeriphInit

NextStartup == Main_AllocateAndSet({"ok", "eraseError", "programError"})

SpecStartup == InitStartup /\ [][NextStartup]_vars

\* The protocol thread: after the start-up of main it handles the packets
\* the PC sends.
InitDispatch == FifoIdle /\ PacketInit /\ PacketPutInit /\ FlashReset /\ MainInit /\ SystemInit /\ PeriphInit

NextDispatch ==
  \/ Main_AllocateAndSet({"ok"})
  \/ \E p \in RxPackets : Dispatch(p)

SpecDispatch == InitDispatch /\ [][NextDispatch]_vars

\* Lab 4: bytes arrive one at a time while the main loop polls Packet_Get,
\* in any interleaving.
InitGet4 == FifoIdle /\ PacketInit /\ PacketPutInit /\ FlashInit /\ MainInit /\ SystemInit /\ PeriphInit

NextGet4 ==
  \/ \E b \in Byte : Lab4_UART_Receive(b)
  \/ Lab4_Packet_Get_Call

SpecGet4 == InitGet4 /\ [][NextGet4]_vars

\* Flash commands are launched one after the other, the hardware raising
\* any of the error flags in each.
InitLaunch == FifoIdle /\ PacketInit /\ PacketPutInit /\ FlashReset /\ MainInit /\ SystemInit /\ PeriphInit

NextLaunch ==
  \/ \E raised \in SUBSET errorMask : EraseSector_Call(raised)
  \/ \E phrase \in LaunchPhrases, raised \in SUBSET errorMask : WritePhrase_Call(phrase, raised)

SpecLaunch == InitLaunch /\ [][NextLaunch]_vars

\* The clock: the PC sets the time, seconds pass, and the RTC thread sends
\* the time.
InitRtc == FifoIdle /\ PacketInit /\ PacketPutInit /\ FlashInit /\ MainInit /\ SystemInit /\ PeriphInit

NextRtc ==
  \/ \E p \in TimePackets : Time_HandleSetTime(p)
  \/ RTC_Second
  \/ RTC_SendTime

SpecRtc == InitRtc /\ [][NextRtc]_vars

\* The analog threads: the channels are sampled, the threads wake up and
\* the PC switches the protocol mode.
InitAnalog == FifoIdle /\ PacketInit /\ PacketPutInit /\ FlashInit /\ MainInit /\ SystemInit /\ PeriphInit

NextAnalog ==
  \/ \E c \in AnalogChannels, sample \in Samples : Analog_Get_Call(c, sample)
  \/ \E c \in AnalogChannels : AnalogProcessingThread_Wake(c)
  \/ \E mode \in {ASYNCHRONOUS, SYNCHRONOUS} : Analog_SetProtocolMode(mode)

SpecAnalog == InitAnalog /\ [][NextAnalog]_vars

\* The polled UART of Lab 2: the main loop polls, sends and receives.
InitPoll == FifoIdle /\ PacketInit /\ PacketPutInit /\ FlashInit /\ MainInit /\ SystemInit /\ PeriphInit

NextPoll ==
  \/ \E RDRF \in BOOLEAN, TDRE \in BOOLEAN : Lab2_UART_Poll(RDRF, TDRE)
  \/ Lab2_UART_OutChar
  \/ Lab2_UART_InChar

SpecPoll == InitPoll /\ [][NextPoll]_vars

\* The FlexTimer: channels are set up, compare events set their flags and
\* the interrupt handler serves them.
InitFtm == FifoIdle /\ PacketInit /\ PacketPutInit /\ FlashInit /\ MainInit /\ SystemInit /\ PeriphInit

NextFtm ==
  \/ \E ch \in UsedChannels \cup {8} :
       \E semaphore \in {NULL, ChannelSemaphore(ch)} : FTM_Set_Call(ch, semaphore)
  \/ \E ch \in UsedChannels : FTM_ChannelEvent(ch)
  \/ FTM0_ISR_Call

SpecFtm == InitFtm /\ [][NextFtm]_vars

(***************************************************************************)
(* Properties                                                              *)
(***************************************************************************)
IsPrefix(s, t) == Len(s) <= Len(t) /\ \A i \in 1..Len(s) : s[i] = t[i]

\* No FIFO_BlockingPut / FIFO_BlockingGet is between its entry and its return.
NoOpMidFlight == pcPut = "idle" /\ pcGet = "idle"

\* C1: for every sequence of FIFO_Put and FIFO_Get calls, NbBytes stays
\* within 0..FIFO_SIZE.
C1_NbBytesInRange == FIFO.NbBytes \in 0..FIFO_SIZE

\* C1 witness: a FIFO_Put filled the FIFO again after bytes had been taken
\* out, so the stored bytes wrap around the end of Buffer.
C1_Witness ==
  /\ FIFO.NbBytes = FIFO_SIZE
  /\ FIFO.Start # 0
  /\ lastOp = "FIFO_Put"
  /\ result

\* C2: FIFO law: the bytes returned by successful FIFO_Get calls are a
\* prefix of the bytes accepted by successful FIFO_Put calls.
C2_FifoLaw == IsPrefix(getLog, putLog)

\* C2 witness: more bytes than the capacity went through, so the indices
\* wrapped around, and both values of a byte were transferred.
C2_Witness ==
  /\ Len(getLog) > FIFO_SIZE
  /\ getLog = putLog
  /\ \E i, j \in 1..Len(getLog) : getLog[i] # getLog[j]

\* C3 (as claimed): whenever no operation is mid-flight,
\* GetSemaphore + PutSemaphore = FIFO_SIZE.
C3_SemaphoreSum ==
  (cfg = "Lab5" /\ NoOpMidFlight) => FIFO.GetSemaphore + FIFO.PutSemaphore = FIFO_SIZE

\* C4: in the receive and the transmit configuration the FIFO_Put / FIFO_Get
\* made after a successful semaphore wait succeeds: PE_DEBUGHALT is never
\* reached.
C4_NoDebugHalt ==
  /\ ~halted
  /\ lastOp \in {"FIFO_BlockingPut", "FIFO_BlockingGet"} => result

\* C4 witness: the transmit thread completed a blocking put into a FIFO the
\* ISR had drained around the end of the buffer.
C4_Witness ==
  /\ cfg = "Tx"
  /\ lastOp = "FIFO_BlockingPut"
  /\ result
  /\ Len(putLog) > FIFO_SIZE

\* C5: with one thread in FIFO_BlockingPut and one in FIFO_BlockingGet, under
\* fair scheduling every put completes, every get returns, nothing halts, and
\* the k-th byte returned is the k-th byte put.
C5_BlockingLiveness ==
  /\ [](~halted /\ IsPrefix(getLog, putLog))
  /\ (pcPut # "idle") ~> (pcPut = "idle")
  /\ (pcGet # "idle") ~> (pcGet = "idle")
  /\ <>(Len(getLog) = MaxPuts /\ getLog = putLog)

\* C5 witness: the producer is suspended on a full FIFO while the consumer
\* has not asked for a byte yet.
C5_Witness ==
  /\ cfg = "Threads"
  /\ pcPut = "wait"
  /\ FIFO.PutSemaphore = 0
  /\ pcGet = "idle"

\* C6: a failed FIFO_Put (FIFO full) or FIFO_Get (FIFO empty) returns false
\* and changes neither the FIFO structure (Buffer, Start, End, NbBytes, both
\* semaphore counts) nor the caller's byte.
C6_FailedOpIsNoOp ==
  [][ /\ (calls' # calls /\ lastOp' = "FIFO_Put" /\ FIFO.NbBytes = FIFO_SIZE)
         => (~result' /\ FIFO' = FIFO /\ dataOut' = dataOut)
      /\ (calls' # calls /\ lastOp' = "FIFO_Get" /\ FIFO.NbBytes = 0)
         => (~result' /\ FIFO' = FIFO /\ dataOut' = dataOut) ]_vars

\* C6 witness: a FIFO_Get failed on a FIFO that was used and is empty again,
\* while the caller's byte differs from the stale byte at Start.
C6_Witness ==
  /\ lastOp = "FIFO_Get"
  /\ ~result
  /\ FIFO.NbBytes = 0
  /\ Len(getLog) > 0
  /\ dataOut # FIFO.Buffer[FIFO.Start]


\* The 5 bytes s[k+1..k+5] of a stream form a frame: the last one is the XOR
\* of the four before it.
FrameAt(s, k) ==
  Xor(Xor(Xor(s[k + 1], s[k + 2]), s[k + 3]), s[k + 4]) = s[k + 5]

\* The packet carried by the 5 bytes s[k+1..k+5] of a stream.
PacketAt(s, k) ==
  [Command |-> s[k + 1], Parameter1 |-> s[k + 2],
   Parameter2 |-> s[k + 3], Parameter3 |-> s[k + 4]]

\* The window of the decoder once the next byte of the line is appended.
NextWindow == [PacketBuf EXCEPT ![BufNbBytes] = Head(rxStream)]

\* The XOR of the first four bytes of a window equals its fifth byte.
WindowMatches(w) == Xor(Xor(Xor(w[0], w[1]), w[2]), w[3]) = w[4]

\* C7: round trip: from an empty window, the 5 bytes of Packet_Put(c,p1,p2,p3)
\* make Packet_Get report exactly Packet{c,p1,p2,p3} on the 5th byte and not
\* before, without any ShiftBuffer discard, and leave the window empty.
C7_RoundTrip ==
  /\ discards = 0
  /\ emitted = consumed \div PACKET_SIZE
  /\ (consumed % PACKET_SIZE # 0) => (~reported /\ BufNbBytes = consumed % PACKET_SIZE)
  /\ (consumed > 0 /\ consumed % PACKET_SIZE = 0) =>
       /\ reported
       /\ BufNbBytes = 0
       /\ Packet = PacketAt(sent, consumed - PACKET_SIZE)

\* C7 witness: a second packet, different from the first, was decoded over
\* the stale contents of the window.
C7_Witness ==
  /\ consumed = 2 * PACKET_SIZE
  /\ reported
  /\ PacketAt(sent, 0) # PacketAt(sent, PACKET_SIZE)
  /\ Packet = PacketAt(sent, PACKET_SIZE)
  /\ Packet.Parameter3 # 0

\* What C8 says of a corrupted frame followed by a valid frame: no packet
\* before the last byte, and at the last byte exactly the second frame is
\* reported after exactly 5 single-byte discards.
RecoversSecondFrame ==
  /\ (consumed < 2 * PACKET_SIZE) => (emitted = 0 /\ ~reported)
  /\ (consumed = 2 * PACKET_SIZE) =>
       /\ reported
       /\ emitted = 1
       /\ discards = PACKET_SIZE
       /\ Packet = PacketAt(sent, PACKET_SIZE)

\* One of the four 5-byte windows that straddle the corrupted and the valid
\* frame happens to have a matching checksum.
StraddlingFrame == \E k \in 1..(PACKET_SIZE - 1) : FrameAt(sent, k)

\* C8 (as claimed): for every corrupted frame followed by a valid frame the
\* decoder discards the 5 bytes of the corrupted frame one at a time and then
\* reports the second frame, with no packet reported in between.
C8_Original == RecoversSecondFrame

\* C8 (amended): the same, provided none of the four windows straddling the
\* two frames has a matching checksum.
C8_Recovery == (~StraddlingFrame) => RecoversSecondFrame

\* C8 witness: the second frame was recovered after 5 discards.
C8_Witness ==
  /\ ~StraddlingFrame
  /\ consumed = 2 * PACKET_SIZE
  /\ reported
  /\ discards = PACKET_SIZE
  /\ Packet = PacketAt(sent, PACKET_SIZE)
  /\ PacketAt(sent, PACKET_SIZE) # PacketAt(sent, 0)

\* C9: Packet_Get reports a packet only when the window holds 5 bytes whose
\* 5th byte is the XOR of the first four; the published packet is then
\* window[0..3] and the window length is reset to 0.
C9_ReportOnlyValidWindow ==
  [][ (consumed' # consumed /\ (reported' \/ emitted' # emitted)) =>
        /\ BufNbBytes = PACKET_SIZE - 1
        /\ WindowMatches(NextWindow)
        /\ Packet' = [Command |-> NextWindow[0], Parameter1 |-> NextWindow[1],
                      Parameter2 |-> NextWindow[2], Parameter3 |-> NextWindow[3]]
        /\ BufNbBytes' = 0
        /\ reported'
        /\ emitted' = emitted + 1 ]_vars

\* C9 witness: a packet with a non-zero checksum was reported after a
\* resynchronisation.
C9_Witness ==
  /\ reported
  /\ discards > 0
  /\ BufNbBytes = 0
  /\ PacketBuf[PACKET_SIZE - 1] # 0
  /\ Packet.Command # Packet.Parameter1

\* C10: on a checksum mismatch of a full window exactly window[0] is
\* discarded: the window then has length 4 and holds the former window[1..4]
\* in order, no packet is reported and the published packet is unchanged.
C10_MismatchDiscardsFirst ==
  [][ (consumed' # consumed /\ BufNbBytes = PACKET_SIZE - 1 /\ ~WindowMatches(NextWindow)) =>
        /\ BufNbBytes' = PACKET_SIZE - 1
        /\ \A i \in 0..(PACKET_SIZE - 2) : PacketBuf'[i] = NextWindow[i + 1]
        /\ ~reported'
        /\ emitted' = emitted
        /\ discards' = discards + 1
        /\ Packet' = Packet ]_vars

\* C10 witness: a byte was discarded after a packet had been published, and
\* the window holds 4 bytes that are not all equal.
C10_Witness ==
  /\ emitted > 0
  /\ discards > 0
  /\ ~reported
  /\ BufNbBytes = PACKET_SIZE - 1
  /\ PacketBuf[2] # PacketBuf[3]
  /\ Packet.Command # 0

(***************************************************************************)
(* C11: between two iterations of Packet_Get the window holds 0..4 bytes,  *)
(* so ReadNextByte writes PacketBuf[BufNbBytes] inside the 5-byte array    *)
(* and BufNbBytes never exceeds 5, and PacketBuf[0..BufNbBytes-1] are the  *)
(* most recent BufNbBytes bytes read from the stream since the last        *)
(* reported packet, in stream order.                                       *)
(***************************************************************************)
C11_DecoderWindow ==
  /\ BufNbBytes \in 0..(PACKET_SIZE - 1)
  /\ ReadNextByte(PacketBuf, BufNbBytes, 0).n \in 1..PACKET_SIZE
  /\ BufNbBytes <= Len(recent)
  /\ \A i \in 0..(BufNbBytes - 1) :
       PacketBuf[i] = recent[Len(recent) - BufNbBytes + i + 1]

\* C11 witness: after a reported packet, five more bytes were read, the
\* first of them was discarded and the window holds the last four.
C11_Witness ==
  /\ emitted > 0
  /\ discards > 0
  /\ BufNbBytes = PACKET_SIZE - 1
  /\ Len(recent) = PACKET_SIZE
  /\ recent[1] # recent[2]

\* The bytes of putLog written by Packet_Put call k, among the first n.
RECURSIVE Owned(_, _)
Owned(k, n) ==
  IF n = 0 THEN <<>>
  ELSE IF txOwner[n] = k THEN Append(Owned(k, n - 1), putLog[n])
  ELSE Owned(k, n - 1)

\* The bytes call k put into the transmit FIFO.
OwnedBytes(k) == Owned(k, Len(txOwner))

\* The wire bytes of a packet, from its arguments.
WireBytes(a) == <<a[1], a[2], a[3], a[4], Xor(Xor(a[1], a[2]), Xor(a[3], a[4]))>>

\* The bytes stored in the FIFO, oldest first.
FifoContents == [j \in 1..FIFO.NbBytes |-> FIFO.Buffer[(FIFO.Start + j - 1) % FIFO_SIZE]]

(***************************************************************************)
(* C12: a Packet_Put(command, p1, p2, p3) that returned true appended to   *)
(* the transmit FIFO exactly the 5 bytes command, p1, p2, p3,              *)
(* command XOR p1 XOR p2 XOR p3, in that order, and nothing else; every    *)
(* byte of the FIFO's input was written by some Packet_Put call, and       *)
(* Packet_Put(0x04,0,0,0) appended 0x04,0x00,0x00,0x00,0x04.               *)
(***************************************************************************)
C12_PutAppendsFrame ==
  /\ Len(txOwner) = Len(putLog)
  /\ \A j \in 1..Len(txOwner) : txOwner[j] \in 1..Len(puts)
  /\ \A k \in 1..Len(puts) :
       (puts[k].returned /\ puts[k].wasSuccess) =>
         /\ OwnedBytes(k) = WireBytes(puts[k].args)
         /\ puts[k].args = <<4, 0, 0, 0>> => OwnedBytes(k) = <<4, 0, 0, 0, 4>>

\* C12 witness: two calls returned true, one of them Packet_Put(0x09,'v',5,0).
C12_Witness ==
  /\ Len(puts) = 2
  /\ \A k \in 1..2 : puts[k].returned /\ puts[k].wasSuccess
  /\ puts[1].args # puts[2].args
  /\ \E k \in 1..2 : puts[k].args = <<9, 118, 5, 0>>

(***************************************************************************)
(* C13: with several threads inside Packet_Put under any interleaving, the *)
(* bytes written by one Packet_Put call are contiguous in the transmit     *)
(* FIFO's input order: no byte of another call lies between two of them    *)
(* (a byte that has a later byte of the same call is followed by a byte of *)
(* that call).                                                             *)
(***************************************************************************)
C13_NoInterleaving ==
  \A i \in 1..Len(txOwner), k \in 1..Len(txOwner) :
    (i < k /\ txOwner[i] = txOwner[k]) => txOwner[i + 1] = txOwner[i]

\* C13 witness: a thread is preempted in the middle of its packet while
\* another thread, which called Packet_Put earlier, still waits for the mutex.
C13_Witness ==
  \E t \in Threads, u \in Threads :
    /\ t # u
    /\ putThread[t].pc = "out"
    /\ puts[putThread[t].call].attempts \in 1..(PACKET_SIZE - 1)
    /\ putThread[u].pc = "wait"
    /\ putThread[u].call < putThread[t].call

(***************************************************************************)
(* C14: when the transmit FIFO rejected the i-th byte of a Packet_Put      *)
(* (1 <= i <= 5), the call made exactly i UART_OutChar calls (no later     *)
(* byte is attempted), its first i-1 bytes are the ones it put into the    *)
(* FIFO, they stay there until the UART sends them, and the value it       *)
(* returns (wasSuccess) is false.                                          *)
(***************************************************************************)
C14_RejectedByteFails ==
  /\ putLog = getLog \o FifoContents
  /\ \A k \in 1..Len(puts) :
       /\ puts[k].attempts \in 0..PACKET_SIZE
       /\ puts[k].wasSuccess => Len(OwnedBytes(k)) = puts[k].attempts
       /\ ~puts[k].wasSuccess =>
            /\ puts[k].attempts \in 1..PACKET_SIZE
            /\ OwnedBytes(k) = SubSeq(WireBytes(puts[k].args), 1, puts[k].attempts - 1)

\* C14 witness: a call returned false after the FIFO took some of its
\* bytes, and one of these bytes is still in the FIFO.
C14_Witness ==
  \E k \in 1..Len(puts) :
    /\ puts[k].returned
    /\ ~puts[k].wasSuccess
    /\ puts[k].attempts \in 2..(PACKET_SIZE - 1)
    /\ FIFO.NbBytes = FIFO_SIZE
    /\ Len(getLog) > 0

\* Bit j of a bitmap.
Bit(mask, j) == (mask \div (2 ^ j)) % 2

\* The byte offsets of a range <<offset, size>>.
RangeOf(r) == r[1]..(r[1] + r[2] - 1)

\* A block of s bytes at offset k is aligned, inside the phrase and free.
Fits(k, s) ==
  /\ k % s = 0
  /\ k + s <= 8
  /\ \A j \in k..(k + s - 1) : Bit(availableBytes, j) = 0

\* The offsets a request of size s may get.
Candidates(s) == IF s \in {1, 2, 4} THEN {k \in 0..7 : Fits(k, s)} ELSE {}

\* The smallest element of a non-empty set of numbers.
Lowest(S) == CHOOSE k \in S : \A m \in S : k <= m

(***************************************************************************)
(* C15: a Flash_AllocateVar request of size s in {1,2,4} returns the       *)
(* lowest offset k*s below 8 whose s bitmap bits are all free and marks    *)
(* exactly those bits; it fails iff there is no such offset or s is not    *)
(* 1, 2 or 4.  After 2, 2 and 4 bytes were allocated at offsets 0, 2 and   *)
(* 4 a further 2-byte request fails.                                       *)
(***************************************************************************)
C15_FirstFit ==
  [][ flashCall'.op = "Flash_AllocateVar" =>
        LET s == flashCall'.size
            cands == Candidates(s)
        IN /\ flashCall'.result <=> cands # {}
           /\ cands # {} =>
                /\ variable' = Add32(FLASH_DATA_START, Lowest(cands))
                /\ \A j \in 0..7 :
                     Bit(availableBytes', j) =
                       IF j \in Lowest(cands)..(Lowest(cands) + s - 1)
                       THEN 1 ELSE Bit(availableBytes, j)
           /\ (allocated = {<<0, 2>>, <<2, 2>>, <<4, 4>>} /\ s = 2) => ~flashCall'.result
    ]_vars

\* C15 witness: 2, 2 and 4 bytes were allocated at offsets 0, 2 and 4 and
\* the 2-byte request that followed failed.
C15_Witness ==
  /\ allocated = {<<0, 2>>, <<2, 2>>, <<4, 4>>}
  /\ flashCall.op = "Flash_AllocateVar"
  /\ flashCall.size = 2
  /\ ~flashCall.result
  /\ variable = Add32(FLASH_DATA_START, 4)

\* A bit is set iff its byte lies in a range handed out; the ranges are
\* aligned, inside the phrase and pairwise disjoint.
BitmapMatchesRanges ==
  /\ \A j \in 0..7 : Bit(availableBytes, j) = 1 <=> \E r \in allocated : j \in RangeOf(r)
  /\ availableBytes \in 0..255
  /\ \A r \in allocated : r[2] \in {1, 2, 4} /\ r[1] % r[2] = 0 /\ r[1] >= 0 /\ r[1] + r[2] <= 8
  /\ \A r \in allocated, q \in allocated : r # q => RangeOf(r) \cap RangeOf(q) = {}

\* A failed call changes neither the bitmap nor the caller's pointer, and
\* no call clears a bit.
AllocationKeeps ==
  /\ (flashCall'.op = "Flash_AllocateVar" /\ ~flashCall'.result) =>
       availableBytes' = availableBytes /\ variable' = variable
  /\ \A j \in 0..7 : Bit(availableBytes, j) = 1 => Bit(availableBytes', j) = 1

(***************************************************************************)
(* C16: after any sequence of Flash_AllocateVar calls a bitmap bit is set  *)
(* iff that byte offset lies in a range returned by a successful call, the *)
(* returned ranges are pairwise disjoint, aligned to their size and inside *)
(* offsets 0..7; a failed call changes neither the bitmap nor the caller's *)
(* pointer; no bit is ever cleared.                                        *)
(***************************************************************************)
C16_BitmapInvariant == [](BitmapMatchesRanges) /\ [][AllocationKeeps]_vars

\* C16 witness: the phrase is full, allocated in blocks of all three sizes,
\* and the last request failed and left the caller's pointer alone.
C16_Witness ==
  /\ availableBytes = 255
  /\ \A s \in {1, 2, 4} : \E r \in allocated : r[2] = s
  /\ flashCall.op = "Flash_AllocateVar"
  /\ ~flashCall.result
  /\ variable # NULL

\* The step is a call of Flash_Write8, Flash_Write16 or Flash_Write32.
WrapperStep ==
  /\ flashOps' = flashOps + 1
  /\ flashCall'.op \in {"Flash_Write8", "Flash_Write16", "Flash_Write32"}

\* The step is a call of Flash_WriteN.
WriteNStep ==
  /\ flashOps' = flashOps + 1
  /\ flashCall'.op = "Flash_WriteN"

C18_WriteFrame ==
  [][ LET offset == Sub32(flashCall'.address, FLASH_DATA_START)
          s == flashCall'.size
      IN (WriteNStep /\ flashCall'.writeN) =>
           \A i \in 0..7 :
             ~(offset[1] = 0 /\ i \in offset[2]..(offset[2] + s - 1)) => flash'[i] = flash[i]
    ]_vars

\* C18 witness: two bytes in the middle of a programmed phrase were
\* written; they changed and their neighbours did not.
C18_Witness ==
  /\ flashCall.op = "Flash_WriteN"
  /\ flashCall.writeN
  /\ flashCall.size = 2
  /\ flashCall.address = Add32(FLASH_DATA_START, 2)
  /\ flash[2] # StoredPhrase[2]
  /\ flash[1] = StoredPhrase[1]
  /\ flash[4] = StoredPhrase[4]

(***************************************************************************)
(* C19 (as claimed): Flash_Write8, Flash_Write16 and Flash_Write32 return  *)
(* false whenever the Flash_WriteN they call fails and true only when it   *)
(* succeeded.                                                              *)
(***************************************************************************)
C19_FailurePropagates ==
  flashCall.op \in {"Flash_Write8", "Flash_Write16", "Flash_Write32"} =>
    flashCall.result = flashCall.writeN

\* The request is one Flash_WriteN has to reject: the address is below the
\* phrase or not a multiple of size, address + size exceeds the region, or
\* size is not 1, 2 or 4.
InvalidRequest(a, s) ==
  \/ Less32(a, FLASH_DATA_START)
  \/ a[1] > FLASH_DATA_END[1]
  \/ a[1] = FLASH_DATA_END[1] /\ a[2] + s > FLASH_DATA_END[2]
  \/ s \notin {1, 2, 4}
  \/ s > 0 /\ Mod32(a, s) # 0

(***************************************************************************)
(* C20 (as claimed): Flash_WriteN returns false for every request whose    *)
(* address is below the managed region or not a multiple of size, whose    *)
(* address + size exceeds the region, or whose size is not 1, 2 or 4, and  *)
(* such a request launches neither an erase nor a program command.         *)
(***************************************************************************)
C20_RejectsInvalid ==
  (flashCall.op = "Flash_WriteN" /\ InvalidRequest(flashCall.address, flashCall.size)) =>
    /\ ~flashFault
    /\ ~flashCall.result
    /\ flashCall.launched = <<>>

\* The step is a call that launches flash commands: a write or an erase.
FlashCommandStep == flashOps' = flashOps + 1

(***************************************************************************)
(* C21: each PROGRAM_PHRASE command is launched only immediately after an  *)
(* ERASE_SECTOR command of the same Flash_WriteN call that completed       *)
(* without error; when the erase reports an error no program command is    *)
(* launched and the write returns false.                                   *)
(***************************************************************************)
C21_EraseBeforeProgram ==
  [][ FlashCommandStep =>
        LET c == flashCall' IN
          /\ \A i \in 1..Len(c.launched) :
               c.launched[i] = PROGRAM_PHRASE =>
                 /\ c.op \in {"Flash_WriteN", "Flash_Write8", "Flash_Write16", "Flash_Write32"}
                 /\ i > 1
                 /\ c.launched[i - 1] = ERASE_SECTOR
                 /\ c.hw # "eraseError"
          /\ (c.hw = "eraseError" /\ c.op # "Flash_Erase") =>
               /\ c.launched = <<ERASE_SECTOR>>
               /\ ~c.writeN
               /\ flash' = flash
    ]_vars

\* C21 witness: the erase of a write to an allocated variable reported an
\* error over a programmed phrase; nothing was programmed.
C21_Witness ==
  /\ flashCall.op = "Flash_Write16"
  /\ flashCall.address = variable
  /\ variable # NULL
  /\ flashCall.hw = "eraseError"
  /\ flashCall.launched = <<ERASE_SECTOR>>
  /\ ~flashCall.writeN
  /\ flash = StoredPhrase

(***************************************************************************)
(* C29 (as claimed): whenever Flash_WriteN returns false, the case where   *)
(* the erase succeeded and the program command reported an error included, *)
(* the managed phrase holds the same 8 bytes as before the call.           *)
(***************************************************************************)
C29_AllOrNothing ==
  [][ (WriteNStep /\ ~flashFault' /\ ~flashCall'.writeN) => flash' = flash ]_vars

(***************************************************************************)
(* C22: after a successful Flash_Erase all 8 bytes of the managed phrase   *)
(* read 0xFF and the allocation bitmap is unchanged: the offsets allocated *)
(* before the erase stay allocated, and a later Flash_AllocateVar never    *)
(* hands out a byte that was allocated before.                             *)
(***************************************************************************)
C22_EraseKeepsBitmap ==
  [][ /\ (flashCall'.op = "Flash_Erase" /\ flashOps' = flashOps + 1 /\ flashCall'.result) =>
           /\ \A i \in 0..7 : flash'[i] = 255
           /\ availableBytes' = availableBytes
           /\ allocated' = allocated
           /\ \A r \in allocated : \A j \in RangeOf(r) : Bit(availableBytes', j) = 1
      /\ (flashCall'.op = "Flash_AllocateVar" /\ flashCall'.result) =>
           LET new == <<Sub32(variable', FLASH_DATA_START)[2], flashCall'.size>> IN
             \A r \in allocated : RangeOf(r) \cap RangeOf(new) = {}
    ]_vars

\* C22 witness: the two half-words of the start-up were allocated, the
\* programmed phrase was erased, and the 2-byte request that followed got
\* the next free offset.
C22_Witness ==
  /\ flashOps = 1
  /\ flashCall.op = "Flash_AllocateVar"
  /\ flashCall.result
  /\ flash = ErasedPhrase
  /\ allocated = {<<0, 2>>, <<2, 2>>, <<4, 2>>}
  /\ variable = Add32(FLASH_DATA_START, 4)

\* The step handles a packet.
DispatchStep == dispatch'.nb = dispatch.nb + 1

TowerModeNow == FlashRead(flash, 0, 2)
TowerNbNow == FlashRead(flash, 2, 2)
TowerModeAtReset == FlashRead(flashAtReset, 0, 2)
TowerNbAtReset == FlashRead(flashAtReset, 2, 2)

\* The flash commands of the writes of the start-up all succeeded.
HardwareSucceeded == \A i \in 1..Len(startup) : startup[i].wrote => startup[i].writeN

(***************************************************************************)
(* C27: for any initial flash contents, after AllocateAndSet(&NvTowerMode, *)
(* 1) followed by AllocateAndSet(&NvTowerNb, 4718), the hardware           *)
(* succeeding, each of the two variables holds its default if its stored   *)
(* half-word read 0xFFFF and otherwise still holds its previously stored   *)
(* value; the write of the second call never alters the first variable.    *)
(***************************************************************************)
C27_GetOrInitialize ==
  /\ [](( Len(startup) = 2 /\ HardwareSucceeded) =>
          /\ NvTowerMode = FLASH_DATA_START
          /\ NvTowerNb = Add32(FLASH_DATA_START, 2)
          /\ TowerModeNow = (IF TowerModeAtReset = 65535 THEN DefaultTowerMode ELSE TowerModeAtReset)
          /\ TowerNbNow = (IF TowerNbAtReset = 65535 THEN DefaultTowerNb ELSE TowerNbAtReset))
  /\ [][ (Len(startup) = 1 /\ Len(startup') = 2 /\ HardwareSucceeded') =>
           FlashRead(flash', 0, 2) = FlashRead(flash, 0, 2) ]_vars

\* C27 witness: the tower mode was stored and the tower number was not; the
\* second call wrote the default next to the stored mode.
C27_Witness ==
  /\ Len(startup) = 2
  /\ ~startup[1].wrote
  /\ startup[2].wrote
  /\ startup[2].writeN
  /\ TowerModeAtReset = 16 + 256 * 255
  /\ TowerModeNow = 16 + 256 * 255
  /\ TowerNbAtReset = 65535
  /\ TowerNbNow = DefaultTowerNb

(***************************************************************************)
(* Specifications of the median filter and of the threads of Lab 5         *)
(***************************************************************************)
\* Median_Filter, of Lab 4 or of Lab 5, called once on any array of 1 to
\* ANALOG_WINDOW_SIZE samples.
InitMedian ==
  /\ FifoIdle /\ PacketInit /\ PacketPutInit /\ FlashInit /\ MainInit
  /\ SysInit
  /\ PeriphInit
  /\ lowIsHigh = TRUE
  /\ medianArg \in UNION {[1..n -> Samples] : n \in 1..ANALOG_WINDOW_SIZE}
  /\ medianOut = MedianIdle

NextMedian == Median_Call \/ Lab4_Median_Call

SpecMedian == InitMedian /\ [][NextMedian]_vars

\* The firmware of Lab 5 from main on: the two AllocateAndSet calls, then
\* the five threads under the RTOS and the interrupt handlers.  The RTOS
\* takes the lower number or the higher number for the higher priority.
\* Under "Lab3" main is followed by the timer interrupts of Lab 3.
InitSystem ==
  /\ cfg \in {"Lab3", "Lab5"}
  /\ FIFO = FIFO_Init
  /\ SR_lock = 0
  /\ pcPut = "idle"
  /\ putArg = 0
  /\ pcGet = "idle"
  /\ dataOut = 0
  /\ lastOp = "none"
  /\ result = FALSE
  /\ calls = 0
  /\ halted = FALSE
  /\ putLog = <<>>
  /\ getLog = <<>>
  /\ PacketInit /\ PacketPutInit /\ FlashInit /\ MainInit
  /\ SysInit
  /\ PeriphInit
  /\ lowIsHigh \in BOOLEAN
  /\ medianArg = <<>>
  /\ medianOut = MedianIdle

NextSystem ==
  \/ Main_AllocateAndSet({"ok"})
  \/ \E t \in SysThreads :
       \/ Thread_WaitForever(t)
       \/ Analog_memcpy(t)
       \/ Analog_qsort(t)
       \/ Analog_TowerProtocolMode(t)
       \/ Thread_EraseSector(t)
       \/ Thread_WritePhrase(t)
  \/ RTC_LEDs_Toggle
  \/ FTM_LEDs_Off
  \/ Protocol_HandleStartup
  \/ Protocol_Packet_Get
  \/ Protocol_HandlePacket
  \/ Protocol_SendAcknowledgeIfRequired
  \/ PIT_ISR
  \/ RTC_ISR
  \/ FTM0_ISR
  \/ UART_ISR
  \/ Lab3_RTC_ISR
  \/ Lab3_PIT_ISR
  \/ Lab3_FTM0_ISR

SpecSystem == InitSystem /\ [][NextSystem]_vars

(***************************************************************************)
(* C28.  Median_Filter(array, size) returns the median of the size         *)
(* half-words for every array of every size 1..5: the middle element of    *)
(* the sorted values for an odd size, the average of the two middle sorted *)
(* values for an even size, whatever the order of the elements.  The       *)
(* average may be rounded either way.                                      *)
(***************************************************************************)
\* v is the k-th smallest of the elements of array.
IsKthSmallest(array, k, v) ==
  /\ \E i \in 1..Len(array) : array[i] = v
  /\ Cardinality({i \in 1..Len(array) : array[i] < v}) <= k - 1
  /\ Cardinality({i \in 1..Len(array) : array[i] > v}) <= Len(array) - k

IsMedian(array, v) ==
  LET n == Len(array) IN
    IF n % 2 = 1
    THEN IsKthSmallest(array, (n \div 2) + 1, v)
    ELSE \E lo, hi \in Samples :
           /\ IsKthSmallest(array, n \div 2, lo)
           /\ IsKthSmallest(array, (n \div 2) + 1, hi)
           /\ 2 * v \in {lo + hi - 1, lo + hi, lo + hi + 1}

C28_MedianOfWindow == medianOut.called => IsMedian(medianArg, medianOut.value)

(***************************************************************************)
(* C24.  Under preemptive priority scheduling no two threads access the    *)
(* same mutable variable, such as the protocol mode or the scratch array   *)
(* of the median filter, except through a FIFO, a semaphore or while       *)
(* holding a mutex: no thread is using a variable, or about to write it,   *)
(* while another thread is using it.                                       *)
(***************************************************************************)
\* The variables a thread accesses outside Packet_Put with the statement it
\* executes next, or is in the middle of using.
Using(t) ==
  IF t \in AnalogThreads
  THEN (IF sysPc[t] \in {"memcpy", "qsort"} THEN {<<"arrayForCloning", "write">>}
        ELSE IF sysPc[t] = "TowerProtocolMode" THEN {<<"TowerProtocolMode", "read">>}
        ELSE {})
  ELSE IF t = "Protocol"
  THEN (IF sysPc[t] = "HandleStartup" THEN {<<"TowerProtocolMode", "read">>}
        ELSE IF sysPc[t] = "HandlePacket"
                /\ BitAnd(Packet.Command, 255 - PACKET_ACK_MASK) = PROTOCOL_MODE
        THEN (IF Packet.Parameter1 = 2 /\ HandleProtocolMode(Packet, Globals).result
              THEN {<<"TowerProtocolMode", "write">>}
              ELSE IF HandleProtocolMode(Packet, Globals).result
              THEN {<<"TowerProtocolMode", "read">>}
              ELSE {})
        ELSE {})
  ELSE {}

C24_NoUnprotectedSharing ==
  \A t, u \in SysThreads :
    t # u =>
      \A a \in Using(t), b \in Using(u) : a[1] = b[1] => a[2] = "read" /\ b[2] = "read"

(***************************************************************************)
(* C26.  The interrupt handlers of the RTC, the PIT and the FTM run no     *)
(* application logic: a handler only captures state and signals a          *)
(* semaphore; it sends no packet, drives no LED and calls no blocking      *)
(* operation.                                                              *)
(***************************************************************************)
C26_IsrOnlySignals == isrOps.ops \subseteq {"Analog_Get", "OS_SemaphoreSignal"}

(***************************************************************************)
(* C25.  The erase and the program of one flash write are a critical       *)
(* section: in every interleaving of the threads and the interrupt         *)
(* handlers, while a thread is between its erase and the end of its        *)
(* program no other thread starts a Flash call or launches a flash         *)
(* command, and no interrupt handler calls the Flash module.               *)
(***************************************************************************)
FlashPcs == {"EraseSector", "WritePhrase"}

\* The step starts a Flash call of thread u, or launches its erase command.
StartsFlash(u) ==
  \/ sysPc[u] \notin FlashPcs /\ sysPc'[u] \in FlashPcs
  \/ sysPc[u] = "EraseSector" /\ sysPc'[u] # "EraseSector"

C25_FlashCriticalSection ==
  /\ [](isrOps.ops \cap {"Flash_Write8", "Flash_Write16", "Flash_Write32", "Flash_Erase"} = {})
  /\ [][\A t, u \in SysThreads :
          (t # u /\ sysPc[t] = "WritePhrase") => ~StartsFlash(u)]_vars

\* The protocol thread has erased the sector and not yet programmed the
\* phrase, and an analog thread woken by the PIT is in its median filter.
C25_Witness ==
  /\ sysPc["Protocol"] = "WritePhrase"
  /\ flash = ErasedPhrase
  /\ isrOps.isr = "PIT_ISR"
  /\ sysPc["Analog1"] = "qsort"

(***************************************************************************)
(* C30.  Re-alignment: from an empty window, k stray bytes (k in 1..4)     *)
(* followed by a valid frame F, none of the k windows that start before F  *)
(* having a matching checksum, make the decoder report no packet before    *)
(* the last byte of F, and at the last byte of F exactly the packet of F,  *)
(* after exactly k single-byte discards.                                   *)
(***************************************************************************)
\* The number of stray bytes in front of the frame.
StrayBytes == Len(sent) - PACKET_SIZE

\* One of the 5-byte windows that start at a stray byte has a matching
\* checksum.
EarlierFrame == \E j \in 0..(StrayBytes - 1) : FrameAt(sent, j)

C30_Realignment ==
  (~EarlierFrame) =>
    /\ (consumed < Len(sent)) => (emitted = 0 /\ ~reported)
    /\ (consumed >= PACKET_SIZE /\ consumed < Len(sent)) =>
         discards = consumed - PACKET_SIZE + 1
    /\ (consumed = Len(sent)) =>
         /\ reported
         /\ emitted = 1
         /\ discards = StrayBytes
         /\ BufNbBytes = 0
         /\ Packet = PacketAt(sent, StrayBytes)

\* C30 witness: a frame behind 4 stray bytes was reported after 4 discards;
\* the stray bytes are not the start of a copy of the frame.
C30_Witness ==
  /\ StrayBytes = PACKET_SIZE - 1
  /\ ~EarlierFrame
  /\ consumed = Len(sent)
  /\ reported
  /\ discards = PACKET_SIZE - 1
  /\ Packet = PacketAt(sent, StrayBytes)
  /\ Packet.Command # sent[1]
  /\ Packet.Parameter1 # Packet.Parameter2

(***************************************************************************)
(* C31.  The non-blocking Packet_Get returns false exactly when the        *)
(* receive buffer is exhausted before a checksum-valid window is formed,   *)
(* and keeps the partial window between calls: however the arrival of a    *)
(* byte stream is split across successive Packet_Get calls, the packets    *)
(* reported are those reported when the whole stream is available at once. *)
(***************************************************************************)
\* The packets successive Packet_Get calls report from the window
\* buf[0..n-1] when all the bytes rx are in the receive FIFO.
RECURSIVE PacketsFrom(_, _, _)
PacketsFrom(buf, n, rx) ==
  LET g == Lab4_Packet_Get(buf, n, rx) IN
    IF g.result THEN <<g.packet>> \o PacketsFrom(g.buf, g.n, g.rx) ELSE <<>>

WholeStreamPackets(s) == PacketsFrom([i \in 0..(PACKET_SIZE - 1) |-> 0], 0, s)

\* The bytes of the window followed by the first k bytes of the receive FIFO.
WindowThen(k) == [j \in 1..BufNbBytes |-> PacketBuf[j - 1]] \o SubSeq(rxStream, 1, k)

\* Reading k bytes forms a window of 5 bytes with a valid checksum.
FormsValidWindow(k) ==
  LET w == WindowThen(k) IN
    /\ Len(w) >= PACKET_SIZE
    /\ LET f == SubSeq(w, Len(w) - PACKET_SIZE + 1, Len(w)) IN
         Xor(Xor(Xor(f[1], f[2]), f[3]), f[4]) = f[5]

FirstValid == CHOOSE k \in 1..Len(rxStream) :
                FormsValidWindow(k) /\ \A m \in 1..(k - 1) : ~FormsValidWindow(m)

GetReturnsRight ==
  Lab4_Packet_Get_Call =>
    /\ reported' <=> (\E k \in 1..Len(rxStream) : FormsValidWindow(k))
    /\ reported' =>
         LET w == WindowThen(FirstValid) IN
           /\ rxStream' = SubSeq(rxStream, FirstValid + 1, Len(rxStream))
           /\ Packet' = [Command |-> w[Len(w) - 4], Parameter1 |-> w[Len(w) - 3],
                         Parameter2 |-> w[Len(w) - 2], Parameter3 |-> w[Len(w) - 1]]
           /\ BufNbBytes' = 0
    /\ ~reported' =>
         LET w == WindowThen(Len(rxStream))
             kept == IF Len(w) < PACKET_SIZE THEN Len(w) ELSE PACKET_SIZE - 1 IN
           /\ rxStream' = <<>>
           /\ Packet' = Packet
           /\ BufNbBytes' = kept
           /\ \A j \in 1..kept : PacketBuf'[j - 1] = w[Len(w) - kept + j]

C31_SplitArrival ==
  /\ [](IsPrefix(packets, WholeStreamPackets(sent)))
  /\ [](rxStream = <<>> => packets = WholeStreamPackets(sent))
  /\ [][GetReturnsRight]_vars

\* A packet was reported, and a later call returned false with the one
\* byte that had arrived kept in the window.
C31_Witness ==
  /\ lastOp = "Packet_Get"
  /\ ~reported
  /\ rxStream = <<>>
  /\ Len(packets) = 1
  /\ BufNbBytes = 1

(***************************************************************************)
(* C38.  Decoder byte conservation: after any sequence of bytes consumed   *)
(* by Packet_Get, the number of bytes consumed is 5 times the number of    *)
(* packets emitted, plus the number of single-byte discards, plus          *)
(* BufNbBytes: a byte leaves the window only by a one-byte discard or as   *)
(* part of an emitted frame.                                               *)
(***************************************************************************)
C38_ByteConservation == consumed = PACKET_SIZE * emitted + discards + BufNbBytes

\* A packet was emitted, a byte was discarded and the window is partly full.
C38_Witness ==
  /\ emitted >= 1
  /\ discards >= 1
  /\ BufNbBytes >= 1
  /\ consumed = PACKET_SIZE * emitted + discards + BufNbBytes

(***************************************************************************)
(* C35.  The write index of the FIFO is derived state: in every reachable  *)
(* state End = (Start + NbBytes) mod FIFO_SIZE, and Start and End are both *)
(* within 0..FIFO_SIZE-1.                                                  *)
(***************************************************************************)
C35_EndIsDerived ==
  /\ FIFO.Start \in 0..(FIFO_SIZE - 1)
  /\ FIFO.End \in 0..(FIFO_SIZE - 1)
  /\ FIFO.End = (FIFO.Start + FIFO.NbBytes) % FIFO_SIZE

\* The contents wrap around the end of the buffer.
C35_Witness ==
  /\ FIFO.NbBytes > 0
  /\ FIFO.End < FIFO.Start
  /\ FIFO.End = (FIFO.Start + FIFO.NbBytes) % FIFO_SIZE

(***************************************************************************)
(* C32.  Exclusive-access primitives are released on every exit path: the  *)
(* count of the Packet_Put mutex is always 0 or 1 and is back at 1         *)
(* whenever no Packet_Put is in progress, after success and after a        *)
(* rejected byte alike, and FIFO_Put and FIFO_Get have left their critical *)
(* region when they return, on the success and on the full/empty path.     *)
(***************************************************************************)
\* The threads between OS_SemaphoreWait(PutMutex) and OS_SemaphoreSignal.
HoldingPutMutex == {t \in Threads : putThread[t].pc \in {"out", "signal"}}

C32_ReleasedOnEveryPath ==
  /\ PutMutex \in {0, 1}
  /\ PutMutex = 1 - Cardinality(HoldingPutMutex)
  /\ (\A t \in Threads : putThread[t].pc = "idle") => PutMutex = 1
  /\ \A k \in 1..Len(puts) : puts[k].returned => putThread[puts[k].thread].call # k
                                                 \/ putThread[puts[k].thread].pc = "idle"
  /\ SR_lock = 0

\* A Packet_Put returned false after a rejected byte, nothing is in
\* progress, the mutex is free, and the last FIFO_Get found the FIFO empty.
C32_Witness ==
  /\ \E k \in 1..Len(puts) : puts[k].returned /\ ~puts[k].wasSuccess
  /\ \A t \in Threads : putThread[t].pc = "idle"
  /\ PutMutex = 1
  /\ lastOp = "FIFO_Get"
  /\ ~result
  /\ SR_lock = 0

(***************************************************************************)
(* C34.  LaunchCommand returns false iff the protection-violation or the   *)
(* access-error flag is set when the command completes, and whenever it    *)
(* returns, true or false, neither error flag is left set, so an error of  *)
(* one command is never reported for a later command.                      *)
(***************************************************************************)
C34_ErrorFlagsCleared ==
  /\ FTFE_FSTAT \cap errorMask = {}
  /\ \A k \in 1..Len(launched) :
       /\ launched[k].result <=> (launched[k].atCompletion \cap errorMask = {})
       /\ launched[k].result <=> (launched[k].raised = {})

\* A command failed with an access error and the next command, in which
\* the hardware raised no flag, returned true.
C34_Witness ==
  \E k \in 1..(Len(launched) - 1) :
    /\ "ACCERR" \in launched[k].atCompletion
    /\ ~launched[k].result
    /\ launched[k + 1].raised = {}
    /\ launched[k + 1].result
    /\ FTFE_FSTAT \cap errorMask = {}

(***************************************************************************)
(* C36 (as claimed).  Every Time packet sent by SendTime carries hours in  *)
(* 0..23, minutes in 0..59 and seconds in 0..59, for every value the       *)
(* free-running seconds counter can reach after RTC_Set was called with a  *)
(* valid time; and RTC_Get immediately after RTC_Set(h, m, s) with valid   *)
(* h, m, s returns (h, m, s).                                              *)
(***************************************************************************)
TimePacketsInRange ==
  \A k \in 1..Len(timeSent) :
    /\ timeSent[k][2] \in 0..23
    /\ timeSent[k][3] \in 0..59
    /\ timeSent[k][4] \in 0..59

\* A step that handles a valid Time packet leaves a clock that RTC_Get
\* reads back as the time of the packet.
GetAfterSet ==
  (dispatch'.handled /\ RTC_TSR' # RTC_TSR) =>
    RTC_Get(RTC_TSR') = [hours |-> Packet'.Parameter1, minutes |-> Packet'.Parameter2,
                         seconds |-> Packet'.Parameter3]

C36_TimeInRange == [](TimePacketsInRange) /\ [][Time_HandleSetTime(Packet') => GetAfterSet]_vars

(***************************************************************************)
(* C37 (as claimed).  On each wake of an AnalogProcessingThread, in        *)
(* SYNCHRONOUS protocol mode an analog-value packet is sent every time; in *)
(* ASYNCHRONOUS mode a packet is sent when, and only when, the newly       *)
(* filtered value differs from the previous one.                           *)
(***************************************************************************)
C37_TransmissionPolicy ==
  analogSent.woke =>
    /\ (analogSent.mode = SYNCHRONOUS => analogSent.sent)
    /\ (analogSent.mode = ASYNCHRONOUS =>
          (analogSent.sent <=> analogSent.value # analogSent.oldValue))

(***************************************************************************)
(* C39.  UART_Poll never loses a queued transmit byte: a byte is removed   *)
(* from the transmit FIFO only in a poll where the transmitter is ready,   *)
(* and every removed byte is written to the data register, so the bytes    *)
(* written to the UART are a prefix of the bytes accepted by UART_OutChar, *)
(* in order; on the receive side a byte arriving while the receive FIFO is *)
(* full is dropped without changing the FIFO.                              *)
(***************************************************************************)
\* The bytes queued in a FIFO, oldest first.
Queued(F) == [k \in 1..F.NbBytes |-> F.Buffer[(F.Start + k - 1) % FIFO_SIZE]]

\* The bytes written and the bytes still queued are the bytes accepted.
NothingLost == UART.accepted = UART.written \o Queued(UART.TxFIFO)

\* A step that removes a byte from the transmit FIFO is a poll with TDRE
\* set, and the byte is the next one written to the data register.
RemovedWhenReady ==
  UART'.TxFIFO.NbBytes < UART.TxFIFO.NbBytes =>
    /\ UART'.poll.polled /\ UART'.poll.TDRE
    /\ UART'.written = Append(UART.written, UART.TxFIFO.Buffer[UART.TxFIFO.Start])

\* A poll with RDRF set and a full receive FIFO leaves the FIFO as it was.
DroppedWhenFull ==
  (UART'.poll.polled /\ UART'.poll.RDRF /\ UART.RxFIFO.NbBytes = FIFO_SIZE) =>
    (UART'.poll.dropped /\ UART'.RxFIFO = UART.RxFIFO)

C39_PollLosesNothing ==
  [](NothingLost) /\ [][RemovedWhenReady /\ DroppedWhenFull]_vars

\* A poll found the transmitter busy with bytes queued, bytes were written
\* before, and a byte arrived at a full receive FIFO.
C39_Witness ==
  /\ UART.poll.polled /\ UART.poll.dropped /\ ~UART.poll.TDRE
  /\ UART.TxFIFO.NbBytes > 0
  /\ Len(UART.written) > 1
  /\ UART.TxFIFO.End < UART.TxFIFO.Start

(***************************************************************************)
(* C40 (as claimed).  One invocation of FTM0_ISR signals at most one       *)
(* semaphore, and only the semaphore registered for a channel whose        *)
(* interrupt-enable and interrupt flag are both set; the flag of that      *)
(* channel is cleared before the signal, and a flagged channel with no     *)
(* registered semaphore has its flag cleared without any signal.           *)
(***************************************************************************)
\* The positions of the signals among the events of the last invocation.
Signals == {k \in 1..Len(ftmIsr.events) : ftmIsr.events[k][1] = "signal"}

\* At most one signal; it is for the semaphore of a channel that was
\* enabled and flagged, and the clearing of the flag of that channel comes
\* before it.
OneSignalForEnabledFlagged ==
  /\ Cardinality(Signals) <= 1
  /\ \A k \in Signals :
       LET i == ftmIsr.events[k][2] IN
         /\ "CHIE" \in ftmIsr.before[i] /\ "CHF" \in ftmIsr.before[i]
         /\ ftmIsr.events[k][3] = userCallbacks[i]
         /\ userCallbacks[i] # NULL
         /\ \E j \in 1..(k - 1) : ftmIsr.events[j] = <<"clear", i, NULL>>
         /\ "CHF" \notin FTM0_CnSC[i]

\* Channel i was enabled and flagged with no semaphore registered.
FlaggedWithoutSemaphore(i) ==
  "CHIE" \in ftmIsr.before[i] /\ "CHF" \in ftmIsr.before[i] /\ userCallbacks[i] = NULL

\* Channel i has its flag cleared and was not signalled.
ClearedWithoutSignal(i) ==
  /\ "CHF" \notin FTM0_CnSC[i]
  /\ \A k \in Signals : ftmIsr.events[k][2] # i

C40_IsrServesChannels ==
  ftmIsr.ran =>
    /\ OneSignalForEnabledFlagged
    /\ \A i \in FtmChannels : FlaggedWithoutSemaphore(i) => ClearedWithoutSignal(i)

(***************************************************************************)
(* C40 (amended).  One invocation of FTM0_ISR signals at most one          *)
(* semaphore, and only the semaphore registered for a channel whose        *)
(* interrupt-enable and interrupt flag are both set; the flag of that      *)
(* channel is cleared before the signal.  An enabled and flagged channel   *)
(* with no registered semaphore has its flag cleared without any signal    *)
(* when its number is below that of the channel signalled, or when no      *)
(* channel is signalled; such a channel above the channel signalled keeps  *)
(* its flag, because the loop ends at the signal.                          *)
(***************************************************************************)
\* The channel signalled by the last invocation; 8 when there is none.
Serviced ==
  IF Signals = {} THEN 8 ELSE ftmIsr.events[CHOOSE k \in Signals : TRUE][2]

C40_IsrServesChannelsUpToSignal ==
  ftmIsr.ran =>
    /\ OneSignalForEnabledFlagged
    /\ \A i \in FtmChannels :
         FlaggedWithoutSemaphore(i) =>
           IF i < Serviced THEN ClearedWithoutSignal(i)
           ELSE "CHF" \in FTM0_CnSC[i] /\ FTM0_CnSC[i] = ftmIsr.before[i]

\* An invocation cleared a channel without semaphore, signalled a higher
\* channel and left a flagged channel above it, with and without
\* semaphore, untouched.
C40_Witness ==
  /\ ftmIsr.ran
  /\ Serviced < 8
  /\ \E i \in 0..(Serviced - 1) : FlaggedWithoutSemaphore(i)
  /\ \E i \in (Serviced + 1)..7 : "CHIE" \in ftmIsr.before[i] /\ "CHF" \in ftmIsr.before[i]

\* The processor executes the next statement of the thread the RTOS runs;
\* interrupts and the packets of the PC come or not.
ThreadStep ==
  \/ \E t \in SysThreads :
       \/ Thread_WaitForever(t)
       \/ Analog_memcpy(t)
       \/ Analog_qsort(t)
       \/ Analog_TowerProtocolMode(t)
       \/ Thread_EraseSector(t)
       \/ Thread_WritePhrase(t)
  \/ RTC_LEDs_Toggle
  \/ FTM_LEDs_Off
  \/ Protocol_HandleStartup
  \/ Protocol_Packet_Get
  \/ Protocol_HandlePacket
  \/ Protocol_SendAcknowledgeIfRequired

SpecSystemFair == SpecSystem /\ WF_vars(Main_AllocateAndSet({"ok"})) /\ WF_vars(ThreadStep)

(***************************************************************************)
(* C33.  Each periodic thread (RTCTimerThread, FTMLightThread,             *)
(* AnalogProcessingThread) executes its loop body at most once per signal  *)
(* of its semaphore and never without one; because the semaphore counts,   *)
(* signals raised while the thread is busy are not lost, and under fair    *)
(* scheduling (with the transmit buffer being drained) every signal is     *)
(* eventually followed by one execution of the body.                       *)
(***************************************************************************)
PeriodicThreads == SysThreads \ {"Protocol"}

\* A thread enters its body only from WaitForever, with a signal counted,
\* and takes exactly one; nothing else takes a signal away.
BodyTakesOneSignal ==
  \A t \in PeriodicThreads :
    LET s == SemaphoreOf(t) IN
      /\ (sysPc[t] = "WaitForever" /\ sysPc'[t] # "WaitForever") =>
           (sem[s] > 0 /\ sem'[s] = sem[s] - 1 /\ sysPc'[t] = AfterWait(t))
      /\ sem'[s] < sem[s] =>
           (sem'[s] = sem[s] - 1 /\ sysPc[t] = "WaitForever" /\ sysPc'[t] = AfterWait(t))

\* An interrupt handler adds one to the count of the semaphore it signals,
\* whether the thread waits or is in its body.
SignalsCounted ==
  /\ RTC_ISR => sem'["RTCSemaphore"] = sem["RTCSemaphore"] + 1
  /\ FTM0_ISR => sem'["LedTimerChannel"] = sem["LedTimerChannel"] + 1
  /\ PIT_ISR => \A t \in AnalogThreads : sem'[t] = sem[t] + 1

\* Every signal counted is taken by an execution of the body and the body
\* comes back to WaitForever: time and again no signal of the thread is
\* left and the thread waits for the next.
SignalsServed ==
  \A t \in PeriodicThreads :
    []<>(sem[SemaphoreOf(t)] = 0 /\ sysPc[t] = "WaitForever")

C33_OneBodyPerSignal ==
  /\ [](\A t \in PeriodicThreads : sem[SemaphoreOf(t)] >= 0)
  /\ [][BodyTakesOneSignal /\ SignalsCounted]_vars
  /\ SignalsServed

\* A second signal was raised while the thread was in its body, for a
\* thread that is not the one of highest priority.
C33_Witness ==
  \E t \in PeriodicThreads :
    /\ sysPc[t] # "WaitForever"
    /\ sem[SemaphoreOf(t)] > 0
    /\ \E u \in SysThreads : Higher(u, t) /\ ~Blocked(u)

====
